---- MODULE Spec2Model ----
(***************************************************************************)
(* State-machine model of the ride matching core of dlfelps/sd-uber-go:    *)
(* the ride state machine (entities/ride.go), the ride service             *)
(* (services/ride_service.go), the TTL lock manager                        *)
(* (repository/memory/lock_manager.go) and the matching coordinator        *)
(* (services/matching_service.go: matchingLoop, processDriverResponses).   *)
(*                                                                         *)
(* Time is kept relative: a lock entry stores expiresAt - now and a timer  *)
(* stores the time left until it fires; Tick lets one unit of time pass.   *)
(* Ride and driver records are shared pointers that the services mutate    *)
(* without holding a mutex, so a check of the status followed by a write   *)
(* of the status is modelled as two steps wherever two goroutines can be   *)
(* inside it at once.                                                      *)
(***************************************************************************)
EXTENDS Integers, Sequences, FiniteSets, TLC

\* ---------------------------------------------------------------- bounds
\* The longest geohash handed to Neighbor and AllNeighbors (12 in the
\* program).
MaxHashLen == 2
\* Matching runs that can be started, driver responses that can be
\* submitted, and the capacity of a run's responseChan (10 in the program).
MaxRuns == 2
MaxSubmits == 2
ResponseChanCap == 1
WideChanCap == 2
\* cfg.Matching.DriverResponseTimeout and TotalMatchingTimeout in ticks of
\* the model's clock (10 s and 60 s in the program's configuration).
DriverResponseTimeout == 1
TotalMatchingTimeout == 2

\* ------------------------------------------------------ program constants
SearchRadiusKm == 5
DriverResponsesCap == 100

Riders == {"u1", "u2"}
Rides == {"r1", "r2"}
Drivers == {"d1", "d2"}
Runs == 1..MaxRuns
NoDriver == ""

RideStatusEstimate == "estimate"
RideStatusRequested == "requested"
RideStatusMatching == "matching"
RideStatusAccepted == "accepted"
RideStatusPickingUp == "picking_up"
RideStatusInProgress == "in_progress"
RideStatusCompleted == "completed"
RideStatusCancelled == "cancelled"
RideStatusFailed == "failed"

RideStatuses ==
  {RideStatusEstimate, RideStatusRequested, RideStatusMatching,
   RideStatusAccepted, RideStatusPickingUp, RideStatusInProgress,
   RideStatusCompleted, RideStatusCancelled, RideStatusFailed}

DriverStatusAvailable == "available"
DriverStatusInRide == "in_ride"
\* The status of a driver the repository has no record of.
NoDriverRecord == "none"
DriverStatusOffline == "offline"

VARIABLES
  rideStatus,      \* Ride.Status of every ride in the repository
  rideDriver,      \* Ride.DriverID ("" until AssignDriver)
  riderOf,         \* Ride.RiderID
  reqPc,           \* position of the RequestRide call in flight for a ride
  lastErr,         \* the last ride-service call that returned an error
  driverStatus,    \* Driver.Status
  index,           \* drivers that have a position in the spatial index
  locks,           \* LockManager.locks: key -> expiresAt - now
  pendingMatches,  \* MatchingService.pendingMatches: rideID -> channel (run)
  responseChan,    \* per-run responseChan buffer
  respClosed,      \* whether the run's responseChan is closed
  driverResponses, \* the shared inbox channel
  routerPc,        \* processDriverResponses: "recv" or "send"
  routerResp,      \* the response the router holds
  routerCh,        \* the channel (run) the router looked up
  crashed,         \* the process died from an unrecovered panic
  pc,              \* position of every matchingLoop goroutine
  runRide,         \* the ride a run was started for
  nearbyDrivers,   \* the run's candidate list
  idx,             \* index of the current candidate
  totalTimeout,    \* time left on the run's totalTimeout timer
  driverTimeout,   \* time left on the run's driverTimeout timer
  ctxDone,         \* whether the caller's context was cancelled
  resultChan,      \* outcomes sent on the run's resultChan
  resultClosed,    \* whether the run's resultChan is closed
  sent,            \* notifications the run has sent, in order
  submitted,       \* number of SubmitDriverResponse calls so far
  stop,            \* whether LockManager.stop is closed
  sweeperPc,       \* cleanupExpiredLocks goroutine: "run" or "exit"
  cells,           \* SpatialIndex.drivers: geohash -> driverID -> location
  lastPos,         \* the position of each driver's latest UpdateLocation
  geoCall          \* the last call of a geohash function and what it returned

rideVars == <<rideStatus, rideDriver, riderOf>>
reqVars == <<reqPc, lastErr>>
driverVars == <<driverStatus, index>>
routerVars == <<driverResponses, routerPc, routerResp, routerCh, submitted>>
chanVars == <<responseChan, respClosed>>
runVars == <<pc, runRide, nearbyDrivers, idx, totalTimeout, driverTimeout,
             ctxDone, resultChan, resultClosed, sent>>
sweeperVars == <<stop, sweeperPc>>
geoVars == <<cells, lastPos, geoCall>>
vars == <<rideVars, reqVars, driverVars, locks, pendingMatches,
          chanVars, routerVars, crashed, sweeperVars, geoVars, runVars>>

\* ------------------------------------------------------- ride state machine
validTransitions(s) ==
  CASE s = RideStatusEstimate   -> {RideStatusRequested, RideStatusCancelled}
    [] s = RideStatusRequested  -> {RideStatusMatching, RideStatusCancelled}
    [] s = RideStatusMatching   -> {RideStatusAccepted, RideStatusFailed, RideStatusCancelled}
    [] s = RideStatusAccepted   -> {RideStatusPickingUp, RideStatusCancelled}
    [] s = RideStatusPickingUp  -> {RideStatusInProgress, RideStatusCancelled}
    [] s = RideStatusInProgress -> {RideStatusCompleted, RideStatusCancelled}
    [] OTHER -> {}

CanTransitionTo(s, newStatus) == newStatus \in validTransitions(s)

\* Ride.TransitionTo as one step: the status after the call.
TransitionTo(s, newStatus) == IF CanTransitionTo(s, newStatus) THEN newStatus ELSE s

TerminalStatuses == {RideStatusCompleted, RideStatusCancelled, RideStatusFailed}

ActiveStatuses ==
  {RideStatusRequested, RideStatusMatching, RideStatusAccepted,
   RideStatusPickingUp, RideStatusInProgress}

\* ------------------------------------------------------------ lock manager
\* Fault injection: an entry still counts as live at the instant it expires.
IsLiveAtExpiry(left) == left >= 0

\* time.Now().Before(entry.expiresAt)
IsLive(left) == left > 0

IsLocked(key) == key \in DOMAIN locks /\ IsLive(locks[key])

\* Whether AcquireLock(key, ttl) returns true.
AcquireLock(key) == ~(key \in DOMAIN locks /\ IsLive(locks[key]))

\* lm.locks[key] = &lockEntry{expiresAt: time.Now().Add(ttl)}
LocksAfterAcquire(key, ttl) ==
  [k \in DOMAIN locks \cup {key} |-> IF k = key THEN ttl ELSE locks[k]]

\* Fault injection: a release that spares a live entry.
ReleaseLockIfExpired(key) ==
  [k \in {x \in DOMAIN locks : x # key \/ IsLive(locks[x])} |-> locks[k]]

\* delete(lm.locks, key)
ReleaseLock(key) == [k \in DOMAIN locks \ {key} |-> locks[k]]

\* now.After(entry.expiresAt)
IsSweepable(left) == left < 0


\* ----------------------------------------------------------- repositories
\* RideRepository.GetActiveRideByRiderID: the rides the map scan can return.
GetActiveRideByRiderID(riderID) ==
  {r \in Rides : riderOf[r] = riderID /\ rideStatus[r] \in ActiveStatuses}

\* Driver.IsAvailable
IsAvailable(d) == driverStatus[d] = DriverStatusAvailable

\* Distance from the ride's pickup point to the driver's position (km).
Distance(r, d) ==
  CASE r = "r1" /\ d = "d1" -> 1
    [] r = "r1" /\ d = "d2" -> 2
    [] r = "r2" /\ d = "d1" -> 2
    [] r = "r2" /\ d = "d2" -> 1

\* Fault injection: the radius query returns the farthest driver first.
RECURSIVE SortFarthestFirst(_, _)
SortFarthestFirst(S, r) ==
  IF S = {} THEN <<>>
  ELSE LET d == CHOOSE x \in S : \A y \in S : Distance(r, x) >= Distance(r, y)
       IN <<d>> \o SortFarthestFirst(S \ {d}, r)

\* sort.Slice(results, ...) of FindNearbyDrivers: ascending distance.
RECURSIVE SortByDistance(_, _)
SortByDistance(S, r) ==
  IF S = {} THEN <<>>
  ELSE LET d == CHOOSE x \in S : \A y \in S : Distance(r, x) <= Distance(r, y)
       IN <<d>> \o SortByDistance(S \ {d}, r)

\* SpatialIndex.FindNearbyDrivers: within the radius, nearest first.
FindNearbyDrivers(r) ==
  SortByDistance({d \in index : Distance(r, d) <= SearchRadiusKm}, r)

\* LocationService.FindNearbyAvailableDrivers: keeps the available ones.
FindNearbyAvailableDrivers(r) == SelectSeq(FindNearbyDrivers(r), IsAvailable)

\* RideService.FailMatching: GetByID, ride.Fail(), Update; the status after.
FailMatching(r) == TransitionTo(rideStatus[r], RideStatusFailed)

\* ----------------------------------------------------------------- geohash
\* A geohash is a sequence of one-character strings; coordinates are
\* degrees times CoordScale, a power of two, so that the midpoints Encode
\* bisects at are exact for every precision up to 8.
CoordScale == 1048576
GeohashPrecision == 1

base32 ==
  <<"0", "1", "2", "3", "4", "5", "6", "7", "8", "9", "b", "c",
    "d", "e", "f", "g", "h", "j", "k", "m", "n", "p", "q", "r",
    "s", "t", "u", "v", "w", "x", "y", "z">>

\* The neighbors table (geohash.go 13-18); t is "e" for a hash of odd length
\* and "o" for one of even length, as Neighbor computes it.
neighbors(direction, t) ==
  CASE direction = "n" /\ t = "e" ->
         <<"p", "0", "r", "2", "1", "4", "3", "6", "x", "8", "z", "b",
           "9", "d", "c", "f", "5", "h", "7", "k", "j", "n", "m", "q",
           "e", "s", "g", "u", "t", "w", "v", "y">>
    [] direction = "n" /\ t = "o" ->
         <<"b", "c", "0", "1", "f", "g", "4", "5", "2", "3", "8", "9",
           "6", "7", "d", "e", "u", "v", "h", "j", "y", "z", "n", "p",
           "k", "m", "s", "t", "q", "r", "w", "x">>
    [] direction = "s" /\ t = "e" ->
         <<"1", "4", "3", "6", "5", "h", "7", "k", "9", "d", "c", "f",
           "e", "s", "g", "u", "j", "n", "m", "q", "p", "0", "r", "2",
           "t", "w", "v", "y", "x", "8", "z", "b">>
    [] direction = "s" /\ t = "o" ->
         <<"2", "3", "8", "9", "6", "7", "d", "e", "b", "c", "0", "1",
           "t", "e", "l", "e", "u", "v", "h", "j", "y", "z", "n", "p",
           "k", "m", "s", "t", "q", "r", "w", "x">>
    [] direction = "e" /\ t = "e" ->
         <<"b", "c", "0", "1", "f", "g", "4", "5", "2", "3", "8", "9",
           "6", "7", "d", "e", "u", "v", "h", "j", "y", "z", "n", "p",
           "k", "m", "s", "t", "q", "r", "w", "x">>
    [] direction = "e" /\ t = "o" ->
         <<"p", "0", "r", "2", "1", "4", "3", "6", "x", "8", "z", "b",
           "9", "d", "c", "f", "5", "h", "7", "k", "j", "n", "m", "q",
           "e", "s", "g", "u", "t", "w", "v", "y">>
    [] direction = "w" /\ t = "e" ->
         <<"2", "3", "8", "9", "6", "7", "d", "e", "b", "c", "0", "1",
           "f", "g", "4", "5", "t", "e", "l", "e", "u", "v", "h", "j",
           "y", "z", "n", "p", "k", "m", "s", "t", "q", "r", "w", "x">>
    [] direction = "w" /\ t = "o" ->
         <<"1", "4", "3", "6", "5", "h", "7", "k", "9", "d", "c", "f",
           "e", "s", "g", "u", "j", "n", "m", "q", "p", "0", "r", "2",
           "t", "w", "v", "y", "x", "8", "z", "b">>

\* The borders table (geohash.go 19-24).
borders(direction, t) ==
  CASE direction = "n" /\ t = "e" ->
         <<"p", "r", "x", "z">>
    [] direction = "n" /\ t = "o" ->
         <<"b", "c", "f", "g", "u", "v", "y", "z">>
    [] direction = "s" /\ t = "e" ->
         <<"0", "2", "8", "b">>
    [] direction = "s" /\ t = "o" ->
         <<"0", "1", "4", "5", "h", "j", "n", "p">>
    [] direction = "e" /\ t = "e" ->
         <<"b", "c", "f", "g", "u", "v", "y", "z">>
    [] direction = "e" /\ t = "o" ->
         <<"p", "r", "x", "z">>
    [] direction = "w" /\ t = "e" ->
         <<"0", "1", "4", "5", "h", "j", "n", "p">>
    [] direction = "w" /\ t = "o" ->
         <<"0", "2", "8", "b">>

\* strings.IndexByte: the 0-based position of the first c in tbl, -1 if none.
IndexByte(tbl, c) ==
  IF \E i \in 1..Len(tbl) : tbl[i] = c
  THEN (CHOOSE i \in 1..Len(tbl) : tbl[i] = c /\ \A j \in 1..(i - 1) : tbl[j] # c) - 1
  ELSE -1

\* strings.ContainsRune.
ContainsRune(tbl, c) == \E i \in 1..Len(tbl) : tbl[i] = c

\* The bits Encode produces, n of them, longitude first (geohash.go 50-69).
RECURSIVE EncodeBits(_, _, _, _, _, _, _, _)
EncodeBits(lat, lon, minLat, maxLat, minLon, maxLon, isEven, n) ==
  IF n = 0 THEN <<>>
  ELSE IF isEven
       THEN LET mid == (minLon + maxLon) \div 2
            IN IF lon >= mid
               THEN <<1>> \o EncodeBits(lat, lon, minLat, maxLat, mid, maxLon, FALSE, n - 1)
               ELSE <<0>> \o EncodeBits(lat, lon, minLat, maxLat, minLon, mid, FALSE, n - 1)
       ELSE LET mid == (minLat + maxLat) \div 2
            IN IF lat >= mid
               THEN <<1>> \o EncodeBits(lat, lon, mid, maxLat, minLon, maxLon, TRUE, n - 1)
               ELSE <<0>> \o EncodeBits(lat, lon, minLat, mid, minLon, maxLon, TRUE, n - 1)

\* Encode (geohash.go 34-78): five bits a character, most significant first.
Encode(lat, lon, precision) ==
  LET p == IF precision <= 0 THEN 6 ELSE IF precision > 12 THEN 12 ELSE precision
      bits == EncodeBits(lat, lon, -90 * CoordScale, 90 * CoordScale,
                         -180 * CoordScale, 180 * CoordScale, TRUE, 5 * p)
      ch(k) == 16 * bits[5 * k + 1] + 8 * bits[5 * k + 2] + 4 * bits[5 * k + 3]
               + 2 * bits[5 * k + 4] + bits[5 * k + 5]
  IN [k \in 1..p |-> base32[ch(k - 1) + 1]]

\* What a call returns when it dies of an index out of range.
Panic == <<"panic: index out of range">>

\* Neighbor (geohash.go 119-144). strings.ToLower changes nothing on the
\* base-32 alphabet. base32[idx] panics when idx is 32 or more.
RECURSIVE Neighbor(_, _)
Neighbor(hash, direction) ==
  IF Len(hash) = 0 THEN <<>>
  ELSE LET lastChar == hash[Len(hash)]
           cut == SubSeq(hash, 1, Len(hash) - 1)
           t == IF Len(hash) % 2 = 0 THEN "o" ELSE "e"
           parent == IF ContainsRune(borders(direction, t), lastChar) /\ Len(cut) > 0
                     THEN Neighbor(cut, direction)
                     ELSE cut
           i == IndexByte(neighbors(direction, t), lastChar)
       IN IF parent = Panic THEN Panic
          ELSE IF i >= 0
               THEN IF i >= Len(base32) THEN Panic ELSE Append(parent, base32[i + 1])
               ELSE hash

\* AllNeighbors (geohash.go 147-159); a panic in any of the calls ends it.
AllNeighbors(hash) ==
  LET ns == <<hash, Neighbor(hash, "n"), Neighbor(hash, "s"), Neighbor(hash, "e"),
              Neighbor(hash, "w"),
              IF Neighbor(hash, "n") = Panic THEN Panic ELSE Neighbor(Neighbor(hash, "n"), "e"),
              IF Neighbor(hash, "n") = Panic THEN Panic ELSE Neighbor(Neighbor(hash, "n"), "w"),
              IF Neighbor(hash, "s") = Panic THEN Panic ELSE Neighbor(Neighbor(hash, "s"), "e"),
              IF Neighbor(hash, "s") = Panic THEN Panic ELSE Neighbor(Neighbor(hash, "s"), "w")>>
  IN IF \E k \in 1..9 : ns[k] = Panic THEN Panic ELSE ns

\* ------------------------------------------------------------ spatial index
\* entities.NewDriverLocation(driverID, lat, lon, geohash).
NewDriverLocation(d, lat, lon, geohash) ==
  [driverID |-> d, lat |-> lat, lon |-> lon, geohash |-> geohash]

Position(lat, lon) == [lat |-> lat, lon |-> lon]
NoPos == Position(91 * CoordScale, 181 * CoordScale)

\* Where the drivers of the index reported from before the scenario begins,
\* about a kilometre apart.
HomePos(d) == IF d = "d1" THEN Position(0, 0) ELSE Position(0, 10486)

\* The cells that hold a record of driver d.
Holders(cs, d) == {gh \in DOMAIN cs : d \in DOMAIN cs[gh]}

\* delete(drivers, driverID), and delete(s.drivers, gh) when the cell is left
\* empty (spatial_index.go 39-42, 65-68).
DeleteFromCell(cs, gh, d) ==
  IF DOMAIN cs[gh] = {d}
  THEN [g \in DOMAIN cs \ {gh} |-> cs[g]]
  ELSE [cs EXCEPT ![gh] = [x \in DOMAIN cs[gh] \ {d} |-> cs[gh][x]]]

\* s.drivers[geohash][driverID] = location, creating the cell if needed
\* (spatial_index.go 48-53).
AddToCell(cs, gh, loc) ==
  [g \in DOMAIN cs \cup {gh} |->
     IF g = gh
     THEN [x \in (IF gh \in DOMAIN cs THEN DOMAIN cs[gh] ELSE {}) \cup {loc.driverID} |->
             IF x = loc.driverID THEN loc ELSE cs[gh][x]]
     ELSE cs[g]]

\* The index that holds every driver of D at its home position.
RECURSIVE CellsAtHome(_)
CellsAtHome(D) ==
  IF D = {} THEN <<>>
  ELSE LET d == CHOOSE x \in D : TRUE
           p == HomePos(d)
           gh == Encode(p.lat, p.lon, GeohashPrecision)
       IN AddToCell(CellsAtHome(D \ {d}), gh, NewDriverLocation(d, p.lat, p.lon, gh))

\* SpatialIndex.Count (spatial_index.go 130-139).
RECURSIVE CountIn(_, _)
CountIn(cs, G) ==
  IF G = {} THEN 0
  ELSE LET g == CHOOSE x \in G : TRUE
       IN Cardinality(DOMAIN cs[g]) + CountIn(cs, G \ {g})
Count == CountIn(cells, DOMAIN cells)

\* The arguments and results of the last geohash call.
GeoCall(h, d, out, back, all) ==
  [hash |-> h, direction |-> d, out |-> out, back |-> back, all |-> all]
NoCall == GeoCall(<<>>, "", <<>>, <<>>, <<>>)

\* ------------------------------------------------------------------- Init
Outcome(ok, d, e) == [success |-> ok, driverID |-> d, error |-> e]
Note(k, to) == [kind |-> k, to |-> to]
\* A DriverResponse; orphan records (for the analysis only) that the ride had
\* no registered rendezvous when the response was submitted.
Response(d, r, accept, orphan) ==
  [driverID |-> d, rideID |-> r, accept |-> accept, orphan |-> orphan]
NoResp == Response(NoDriver, "", FALSE, FALSE)
Rejection(op, who, r, s, e) == [op |-> op, who |-> who, ride |-> r, status |-> s, err |-> e]
NoError == Rejection("", "", "", "", "")

\* The state after construction and set-up: the rides exist with the given
\* status and riders, every driver is registered and available, and either
\* all drivers or none have sent a position.
InitWith(status, riders, indexed) ==
  /\ rideStatus = [r \in Rides |-> status]
  /\ rideDriver = [r \in Rides |-> NoDriver]
  /\ riderOf = riders
  /\ reqPc = [r \in Rides |-> "idle"]
  /\ lastErr = NoError
  /\ driverStatus = [d \in Drivers |-> DriverStatusAvailable]
  /\ index = indexed
  /\ locks = <<>>
  /\ pendingMatches = <<>>
  /\ responseChan = [m \in Runs |-> <<>>]
  /\ respClosed = [m \in Runs |-> FALSE]
  /\ driverResponses = <<>>
  /\ routerPc = "recv"
  /\ routerResp = NoResp
  /\ routerCh = 0
  /\ crashed = FALSE
  /\ pc = [m \in Runs |-> "idle"]
  /\ runRide = [m \in Runs |-> "r1"]
  /\ nearbyDrivers = [m \in Runs |-> <<>>]
  /\ idx = [m \in Runs |-> 0]
  /\ totalTimeout = [m \in Runs |-> 0]
  /\ driverTimeout = [m \in Runs |-> 0]
  /\ ctxDone = [m \in Runs |-> FALSE]
  /\ resultChan = [m \in Runs |-> <<>>]
  /\ resultClosed = [m \in Runs |-> FALSE]
  /\ sent = [m \in Runs |-> <<>>]
  /\ submitted = 0
  /\ stop = FALSE
  /\ sweeperPc = "run"
  /\ cells = CellsAtHome(index)
  /\ lastPos = [d \in Drivers |-> IF d \in index THEN HomePos(d) ELSE NoPos]
  /\ geoCall = NoCall

\* The state after construction, with every driver or no driver in the
\* spatial index.
InitState(status, riders) ==
  \E indexed \in {Drivers, {}} : InitWith(status, riders, indexed)

\* Both rides are fare estimates of the same rider.
Init == InitState(RideStatusEstimate, [r \in Rides |-> "u1"])

\* ------------------------------------------------------------ ride service
\* Fault injection: the active-ride check never objects.
ActiveRideErrorIgnored(a, r) == "ok"

\* The error RequestRide returns at its active-ride check when the scan of
\* GetActiveRideByRiderID finds ride a ("nil": none) (ride_service.go 147-150).
ActiveRideError(a, r) == IF a # "nil" /\ a # r THEN "ActiveRideExists" ELSE "ok"

\* What the map scan of GetActiveRideByRiderID can return for the rider.
ActiveRideScan(riderID) ==
  IF GetActiveRideByRiderID(riderID) = {} THEN {"nil"}
  ELSE GetActiveRideByRiderID(riderID)

\* The error of the second part of RequestRide: authorization, then
\* ride.Request() (ride_service.go 152-163).
RequestRideError(riderID, r) ==
  IF riderOf[r] # riderID THEN "NotAuthorized"
  ELSE IF ~CanTransitionTo(rideStatus[r], RideStatusRequested) THEN "InvalidTransition"
  ELSE "ok"

\* RequestRide, first part: the active-ride check. A call by a rider who does
\* not own the ride ends in NotAuthorized whatever happens meanwhile and
\* changes nothing, so only the owner's calls are followed further.
RequestRideCheck(riderID, r) ==
  /\ ~crashed
  /\ reqPc[r] = "idle"
  /\ riderOf[r] = riderID
  /\ \E a \in ActiveRideScan(riderID) : ActiveRideError(a, r) = "ok"
  /\ reqPc' = [reqPc EXCEPT ![r] = "checked"]
  /\ UNCHANGED <<lastErr, rideVars, driverVars, locks, pendingMatches, chanVars,
                 routerVars, crashed, sweeperVars, geoVars, runVars>>

\* RequestRide, second part: ride.Request(), Update (ride_service.go 152-169).
RequestRideWrite(r) ==
  /\ ~crashed
  /\ reqPc[r] = "checked"
  /\ reqPc' = [reqPc EXCEPT ![r] = "idle"]
  /\ rideStatus' = [rideStatus EXCEPT ![r] =
                      IF RequestRideError(riderOf[r], r) = "ok"
                      THEN RideStatusRequested ELSE @]
  /\ UNCHANGED <<lastErr, rideDriver, riderOf, driverVars, locks,
                 pendingMatches, chanVars, routerVars, crashed, sweeperVars, geoVars, runVars>>

\* The errors a RequestRide call can return when it runs without
\* interference: the active-ride check first, then authorization and the
\* transition (ride_service.go 145-163).
RequestRideErrors(riderID, r) ==
  {IF ActiveRideError(a, r) # "ok" THEN ActiveRideError(a, r)
   ELSE RequestRideError(riderID, r) : a \in ActiveRideScan(riderID)}

\* A RequestRide call that returns ActiveRideExists or NotAuthorized: both
\* returns come before any write (ride_service.go 147-159).
RequestRideRejected(riderID, r) ==
  /\ ~crashed
  /\ \E e \in RequestRideErrors(riderID, r) \cap {"ActiveRideExists", "NotAuthorized"} :
       lastErr' = Rejection("RequestRide", riderID, r, "", e)
  /\ UNCHANGED <<reqPc, rideVars, driverVars, locks, pendingMatches, chanVars,
                 routerVars, crashed, sweeperVars, geoVars, runVars>>

\* Fault injection: UpdateRideStatus leaves the driver's status alone.
DriverStatusStale(d, newStatus) == driverStatus[d]

\* The driver status UpdateRideStatus leaves behind (ride_service.go 197-206).
DriverStatusAfter(d, newStatus) ==
  IF newStatus \in {RideStatusPickingUp, RideStatusInProgress}
  THEN DriverStatusInRide
  ELSE IF newStatus \in {RideStatusCompleted, RideStatusCancelled}
       THEN DriverStatusAvailable
       ELSE driverStatus[d]

\* Fault injection: UpdateRideStatus does not consult the transition table.
UpdateRideStatusErrorNoTable(d, r, newStatus) ==
  IF rideDriver[r] # d THEN "NotAuthorized" ELSE "ok"

\* The error UpdateRideStatus returns (ride_service.go 183-194).
UpdateRideStatusError(d, r, newStatus) ==
  IF rideDriver[r] # d THEN "NotAuthorized"
  ELSE IF ~CanTransitionTo(rideStatus[r], newStatus) THEN "InvalidTransition"
  ELSE "ok"

\* RideService.UpdateRideStatus called by a driver (driver_handler.go 102-116).
\* A call that returns an error changes nothing.
UpdateRideStatus(d, r, newStatus) ==
  /\ ~crashed
  /\ UpdateRideStatusError(d, r, newStatus) = "ok"
  /\ rideStatus' = [rideStatus EXCEPT ![r] = newStatus]
  /\ driverStatus' = [driverStatus EXCEPT ![d] = DriverStatusAfter(d, newStatus)]
  /\ UNCHANGED <<rideDriver, riderOf, reqVars, index, locks, pendingMatches,
                 chanVars, routerVars, crashed, sweeperVars, geoVars, runVars>>

\* An UpdateRideStatus call that returns an error: both returns come before
\* any write (ride_service.go 188-194).
UpdateRideStatusRejected(d, r, newStatus) ==
  /\ ~crashed
  /\ UpdateRideStatusError(d, r, newStatus) # "ok"
  /\ lastErr' = Rejection("UpdateRideStatus", d, r, newStatus,
                          UpdateRideStatusError(d, r, newStatus))
  /\ UNCHANGED <<reqPc, rideVars, driverVars, locks, pendingMatches, chanVars,
                 routerVars, crashed, sweeperVars, geoVars, runVars>>

\* --------------------------------------------------- matching coordinator
\* What no step of a matching run touches.
outsideRun == <<riderOf, reqVars, index, routerVars, crashed, sweeperVars, geoVars>>

Ride(m) == runRide[m]
Candidate(m) == nearbyDrivers[m][idx[m]]

\* MatchingService.StartMatching: spawns matchingLoop, whose first step
\* registers a fresh responseChan under ride.ID (lines 146-181).
StartMatching(m, r) ==
  /\ ~crashed
  /\ pc[m] = "idle"
  /\ \A k \in Runs : k < m => pc[k] # "idle"
  /\ runRide' = [runRide EXCEPT ![m] = r]
  /\ pendingMatches' = [k \in DOMAIN pendingMatches \cup {r} |->
                          IF k = r THEN m ELSE pendingMatches[k]]
  /\ pc' = [pc EXCEPT ![m] = "transition"]
  /\ UNCHANGED <<rideVars, driverStatus, locks, chanVars, nearbyDrivers, idx,
                 totalTimeout, driverTimeout, ctxDone, resultChan,
                 resultClosed, sent, outsideRun>>

\* Fault injection: a run whose Matching transition is refused leaves by the
\* failure exit of the loop: it fails the ride and tells the rider.
TransitionCheckFailsRide(m) ==
  /\ ~crashed
  /\ pc[m] = "transition"
  /\ IF CanTransitionTo(rideStatus[Ride(m)], RideStatusMatching)
     THEN /\ pc' = [pc EXCEPT ![m] = "transition_write"]
          /\ UNCHANGED <<resultChan, rideStatus, sent>>
     ELSE /\ rideStatus' = [rideStatus EXCEPT ![Ride(m)] = RideStatusFailed]
          /\ sent' = [sent EXCEPT ![m] = Append(@, Note("RiderNoDriversAvailable", riderOf[Ride(m)]))]
          /\ resultChan' = [resultChan EXCEPT ![m] = Append(@, Outcome(FALSE, NoDriver, "transition"))]
          /\ pc' = [pc EXCEPT ![m] = "deregister"]
  /\ UNCHANGED <<rideDriver, riderOf, driverStatus, locks, pendingMatches, chanVars,
                 runRide, nearbyDrivers, idx, totalTimeout, driverTimeout,
                 ctxDone, resultClosed, reqVars, index, routerVars, crashed,
                 sweeperVars, geoVars>>

\* rideService.StartMatching, the check of ride.TransitionTo (lines 192-195).
TransitionCheck(m) ==
  /\ ~crashed
  /\ pc[m] = "transition"
  /\ IF CanTransitionTo(rideStatus[Ride(m)], RideStatusMatching)
     THEN /\ pc' = [pc EXCEPT ![m] = "transition_write"]
          /\ UNCHANGED resultChan
     ELSE /\ resultChan' = [resultChan EXCEPT ![m] = Append(@, Outcome(FALSE, NoDriver, "transition"))]
          /\ pc' = [pc EXCEPT ![m] = "deregister"]
  /\ UNCHANGED <<rideVars, driverStatus, locks, pendingMatches, chanVars,
                 runRide, nearbyDrivers, idx, totalTimeout, driverTimeout,
                 ctxDone, resultClosed, sent, outsideRun>>

\* The write of ride.TransitionTo(Matching), then time.After(TotalMatchingTimeout)
\* (ride.go 85-86, matching 198).
TransitionWrite(m) ==
  /\ ~crashed
  /\ pc[m] = "transition_write"
  /\ rideStatus' = [rideStatus EXCEPT ![Ride(m)] = RideStatusMatching]
  /\ totalTimeout' = [totalTimeout EXCEPT ![m] = TotalMatchingTimeout]
  /\ pc' = [pc EXCEPT ![m] = "query"]
  /\ UNCHANGED <<rideDriver, driverStatus, locks, pendingMatches, chanVars,
                 runRide, nearbyDrivers, idx, driverTimeout, ctxDone,
                 resultChan, resultClosed, sent, outsideRun>>

\* An exit path that fails the ride: FailMatching, the rider's
\* "no drivers available" notification, the failure outcome.
FailExit(m) ==
  /\ rideStatus' = [rideStatus EXCEPT ![Ride(m)] = FailMatching(Ride(m))]
  /\ sent' = [sent EXCEPT ![m] = Append(@, Note("RiderNoDriversAvailable", riderOf[Ride(m)]))]
  /\ resultChan' = [resultChan EXCEPT ![m] = Append(@, Outcome(FALSE, NoDriver, ""))]
  /\ pc' = [pc EXCEPT ![m] = "deregister"]

\* FindNearbyAvailableDrivers and the empty-list exit (lines 201-224).
Query(m) ==
  /\ ~crashed
  /\ pc[m] = "query"
  /\ IF FindNearbyAvailableDrivers(Ride(m)) = <<>>
     THEN /\ FailExit(m)
          /\ UNCHANGED <<nearbyDrivers, idx>>
     ELSE /\ nearbyDrivers' = [nearbyDrivers EXCEPT ![m] = FindNearbyAvailableDrivers(Ride(m))]
          /\ idx' = [idx EXCEPT ![m] = 1]
          /\ pc' = [pc EXCEPT ![m] = "loop"]
          /\ UNCHANGED <<rideStatus, sent, resultChan>>
  /\ UNCHANGED <<rideDriver, driverStatus, locks, pendingMatches, chanVars,
                 runRide, totalTimeout, driverTimeout, ctxDone, resultClosed,
                 outsideRun>>

\* The candidate list is exhausted (lines 311-315).
Exhausted(m) ==
  /\ ~crashed
  /\ pc[m] = "loop"
  /\ idx[m] > Len(nearbyDrivers[m])
  /\ FailExit(m)
  /\ UNCHANGED <<rideDriver, driverStatus, locks, pendingMatches, chanVars,
                 runRide, nearbyDrivers, idx, totalTimeout, driverTimeout,
                 ctxDone, resultClosed, outsideRun>>

\* Loop-top select, case <-totalTimeout (lines 231-236).
LoopTotalTimeout(m) ==
  /\ ~crashed
  /\ pc[m] = "loop"
  /\ idx[m] <= Len(nearbyDrivers[m])
  /\ totalTimeout[m] = 0
  /\ FailExit(m)
  /\ UNCHANGED <<rideDriver, driverStatus, locks, pendingMatches, chanVars,
                 runRide, nearbyDrivers, idx, totalTimeout, driverTimeout,
                 ctxDone, resultClosed, outsideRun>>

\* Fault injection: the cancellation exit fails the ride and tells the rider
\* as the timeout exit does.
LoopCancelledFails(m) ==
  /\ ~crashed
  /\ pc[m] = "loop"
  /\ idx[m] <= Len(nearbyDrivers[m])
  /\ ctxDone[m]
  /\ rideStatus' = [rideStatus EXCEPT ![Ride(m)] = RideStatusFailed]
  /\ sent' = [sent EXCEPT ![m] = Append(@, Note("RiderNoDriversAvailable", riderOf[Ride(m)]))]
  /\ resultChan' = [resultChan EXCEPT ![m] = Append(@, Outcome(FALSE, NoDriver, "cancelled"))]
  /\ pc' = [pc EXCEPT ![m] = "deregister"]
  /\ UNCHANGED <<rideDriver, riderOf, driverStatus, locks, pendingMatches, chanVars,
                 runRide, nearbyDrivers, idx, totalTimeout, driverTimeout,
                 ctxDone, resultClosed, reqVars, index, routerVars, crashed,
                 sweeperVars, geoVars>>

\* Loop-top select, case <-ctx.Done() (lines 237-239).
LoopCancelled(m) ==
  /\ ~crashed
  /\ pc[m] = "loop"
  /\ idx[m] <= Len(nearbyDrivers[m])
  /\ ctxDone[m]
  /\ resultChan' = [resultChan EXCEPT ![m] = Append(@, Outcome(FALSE, NoDriver, "cancelled"))]
  /\ pc' = [pc EXCEPT ![m] = "deregister"]
  /\ UNCHANGED <<rideVars, driverStatus, locks, pendingMatches, chanVars,
                 runRide, nearbyDrivers, idx, totalTimeout, driverTimeout,
                 ctxDone, resultClosed, sent, outsideRun>>

\* Loop-top select, default, then the availability re-check (lines 240-251).
LoopRecheck(m) ==
  /\ ~crashed
  /\ pc[m] = "loop"
  /\ idx[m] <= Len(nearbyDrivers[m])
  /\ totalTimeout[m] > 0
  /\ ~ctxDone[m]
  /\ IF IsAvailable(Candidate(m))
     THEN pc' = [pc EXCEPT ![m] = "lock"] /\ UNCHANGED idx
     ELSE idx' = [idx EXCEPT ![m] = @ + 1] /\ UNCHANGED pc
  /\ UNCHANGED <<rideVars, driverStatus, locks, pendingMatches, chanVars,
                 runRide, nearbyDrivers, totalTimeout, driverTimeout, ctxDone,
                 resultChan, resultClosed, sent, outsideRun>>

\* Fault injection: a run that finds the driver locked offers the ride all
\* the same.
AcquireOffersAnyway(m) ==
  /\ ~crashed
  /\ pc[m] = "lock"
  /\ locks' = IF AcquireLock(Candidate(m))
              THEN LocksAfterAcquire(Candidate(m), DriverResponseTimeout)
              ELSE locks
  /\ pc' = [pc EXCEPT ![m] = "notify"]
  /\ UNCHANGED <<rideVars, driverStatus, pendingMatches, chanVars, runRide,
                 nearbyDrivers, idx, totalTimeout, driverTimeout, ctxDone,
                 resultChan, resultClosed, sent, riderOf, reqVars, index,
                 routerVars, crashed, sweeperVars, geoVars>>

\* lockManager.AcquireLock("driver:"+driverID, DriverResponseTimeout)
\* (lines 255-260).
Acquire(m) ==
  /\ ~crashed
  /\ pc[m] = "lock"
  /\ IF AcquireLock(Candidate(m))
     THEN /\ locks' = LocksAfterAcquire(Candidate(m), DriverResponseTimeout)
          /\ pc' = [pc EXCEPT ![m] = "notify"]
          /\ UNCHANGED idx
     ELSE /\ idx' = [idx EXCEPT ![m] = @ + 1]
          /\ pc' = [pc EXCEPT ![m] = "loop"]
          /\ UNCHANGED locks
  /\ UNCHANGED <<rideVars, driverStatus, pendingMatches, chanVars, runRide,
                 nearbyDrivers, totalTimeout, driverTimeout, ctxDone,
                 resultChan, resultClosed, sent, outsideRun>>

\* NotifyDriverOfRideRequest, then time.After(DriverResponseTimeout)
\* (lines 267-270).
Notify(m) ==
  /\ ~crashed
  /\ pc[m] = "notify"
  /\ sent' = [sent EXCEPT ![m] = Append(@, Note("DriverOfferReceived", Candidate(m)))]
  /\ driverTimeout' = [driverTimeout EXCEPT ![m] = DriverResponseTimeout]
  /\ pc' = [pc EXCEPT ![m] = "wait"]
  /\ UNCHANGED <<rideVars, driverStatus, locks, pendingMatches, chanVars,
                 runRide, nearbyDrivers, idx, totalTimeout, ctxDone,
                 resultChan, resultClosed, outsideRun>>


\* Fault injection: the acceptance goes through without AssignDriver.
WaitAcceptNoAssign(m) ==
  /\ ~crashed
  /\ pc[m] = "wait"
  /\ responseChan[m] # <<>>
  /\ Head(responseChan[m]).driverID = Candidate(m)
  /\ Head(responseChan[m]).accept
  /\ responseChan' = [responseChan EXCEPT ![m] = Tail(@)]
  /\ locks' = ReleaseLock(Candidate(m))
  /\ IF CanTransitionTo(rideStatus[Ride(m)], RideStatusAccepted)
     THEN pc' = [pc EXCEPT ![m] = "accept_write"] /\ UNCHANGED idx
     ELSE pc' = [pc EXCEPT ![m] = "loop"] /\ idx' = [idx EXCEPT ![m] = @ + 1]
  /\ driverTimeout' = [driverTimeout EXCEPT ![m] = 0]
  /\ UNCHANGED <<rideVars, driverStatus, pendingMatches, respClosed,
                 runRide, nearbyDrivers, totalTimeout, ctxDone, resultChan,
                 resultClosed, sent, reqVars, index, routerVars, crashed, sweeperVars, geoVars>>

\* Offer select, case resp := <-responseChan with the offered driver's
\* acceptance: ReleaseLock, then AcceptRide up to the check inside
\* ride.Accept: AssignDriver has written DriverID (lines 273-283,
\* ride_service.go 219-231, ride.go 114-116).
WaitAccept(m) ==
  /\ ~crashed
  /\ pc[m] = "wait"
  /\ responseChan[m] # <<>>
  /\ Head(responseChan[m]).driverID = Candidate(m)
  /\ Head(responseChan[m]).accept
  /\ responseChan' = [responseChan EXCEPT ![m] = Tail(@)]
  /\ locks' = ReleaseLock(Candidate(m))
  /\ rideDriver' = [rideDriver EXCEPT ![Ride(m)] = Candidate(m)]
  /\ IF CanTransitionTo(rideStatus[Ride(m)], RideStatusAccepted)
     THEN pc' = [pc EXCEPT ![m] = "accept_write"] /\ UNCHANGED idx
     ELSE pc' = [pc EXCEPT ![m] = "loop"] /\ idx' = [idx EXCEPT ![m] = @ + 1]
  /\ driverTimeout' = [driverTimeout EXCEPT ![m] = 0]
  /\ UNCHANGED <<rideStatus, riderOf, driverStatus, pendingMatches, respClosed,
                 runRide, nearbyDrivers, totalTimeout, ctxDone, resultChan,
                 resultClosed, sent, reqVars, index, routerVars, crashed, sweeperVars, geoVars>>

\* The rest of AcceptRide: the status write of TransitionTo(Accepted),
\* driver.StartRide(), the repository updates (ride.go 85-90,
\* ride_service.go 233-244).
AcceptWrite(m) ==
  /\ ~crashed
  /\ pc[m] = "accept_write"
  /\ rideStatus' = [rideStatus EXCEPT ![Ride(m)] = RideStatusAccepted]
  /\ driverStatus' = [driverStatus EXCEPT ![Candidate(m)] = DriverStatusInRide]
  /\ pc' = [pc EXCEPT ![m] = "accepted"]
  /\ UNCHANGED <<rideDriver, locks, pendingMatches, chanVars, runRide,
                 nearbyDrivers, idx, totalTimeout, driverTimeout, ctxDone,
                 resultChan, resultClosed, sent, outsideRun>>

\* NotifyRiderOfDriverAccepted and the success outcome (lines 285-287).
EmitSuccess(m) ==
  /\ ~crashed
  /\ pc[m] = "accepted"
  /\ sent' = [sent EXCEPT ![m] = Append(@, Note("RiderDriverAccepted", riderOf[Ride(m)]))]
  /\ resultChan' = [resultChan EXCEPT ![m] = Append(@, Outcome(TRUE, Candidate(m), ""))]
  /\ pc' = [pc EXCEPT ![m] = "deregister"]
  /\ UNCHANGED <<rideVars, driverStatus, locks, pendingMatches, chanVars,
                 runRide, nearbyDrivers, idx, totalTimeout, driverTimeout,
                 ctxDone, resultClosed, outsideRun>>

\* Fault injection: a decline moves on to the next candidate with the
\* driver's lock still held.
WaitDeclineKeepsLock(m) ==
  /\ ~crashed
  /\ pc[m] = "wait"
  /\ responseChan[m] # <<>>
  /\ ~(Head(responseChan[m]).driverID = Candidate(m) /\ Head(responseChan[m]).accept)
  /\ responseChan' = [responseChan EXCEPT ![m] = Tail(@)]
  /\ idx' = [idx EXCEPT ![m] = @ + 1]
  /\ pc' = [pc EXCEPT ![m] = "loop"]
  /\ driverTimeout' = [driverTimeout EXCEPT ![m] = 0]
  /\ UNCHANGED <<rideVars, driverStatus, locks, pendingMatches, respClosed,
                 runRide, nearbyDrivers, totalTimeout, ctxDone, resultChan,
                 resultClosed, sent, riderOf, reqVars, index, routerVars,
                 crashed, sweeperVars, geoVars>>

\* Offer select, case resp := <-responseChan with a decline or another
\* driver's response (lines 288-292).
WaitDecline(m) ==
  /\ ~crashed
  /\ pc[m] = "wait"
  /\ responseChan[m] # <<>>
  /\ ~(Head(responseChan[m]).driverID = Candidate(m) /\ Head(responseChan[m]).accept)
  /\ responseChan' = [responseChan EXCEPT ![m] = Tail(@)]
  /\ locks' = ReleaseLock(Candidate(m))
  /\ idx' = [idx EXCEPT ![m] = @ + 1]
  /\ pc' = [pc EXCEPT ![m] = "loop"]
  /\ driverTimeout' = [driverTimeout EXCEPT ![m] = 0]
  /\ UNCHANGED <<rideVars, driverStatus, pendingMatches, respClosed, runRide,
                 nearbyDrivers, totalTimeout, ctxDone, resultChan,
                 resultClosed, sent, outsideRun>>

\* Fault injection: the per-offer timeout moves on without telling the
\* driver.
WaitDriverTimeoutSilent(m) ==
  /\ ~crashed
  /\ pc[m] = "wait"
  /\ driverTimeout[m] = 0
  /\ locks' = ReleaseLock(Candidate(m))
  /\ idx' = [idx EXCEPT ![m] = @ + 1]
  /\ pc' = [pc EXCEPT ![m] = "loop"]
  /\ UNCHANGED <<rideVars, driverStatus, pendingMatches, chanVars, runRide,
                 nearbyDrivers, totalTimeout, driverTimeout, ctxDone,
                 resultChan, resultClosed, sent, riderOf, reqVars, index,
                 routerVars, crashed, sweeperVars, geoVars>>

\* Offer select, case <-driverTimeout (lines 294-298).
WaitDriverTimeout(m) ==
  /\ ~crashed
  /\ pc[m] = "wait"
  /\ driverTimeout[m] = 0
  /\ sent' = [sent EXCEPT ![m] = Append(@, Note("DriverOfferTimedOut", Candidate(m)))]
  /\ locks' = ReleaseLock(Candidate(m))
  /\ idx' = [idx EXCEPT ![m] = @ + 1]
  /\ pc' = [pc EXCEPT ![m] = "loop"]
  /\ UNCHANGED <<rideVars, driverStatus, pendingMatches, chanVars, runRide,
                 nearbyDrivers, totalTimeout, driverTimeout, ctxDone,
                 resultChan, resultClosed, outsideRun>>

\* Fault injection: the total-timeout exit of the offer wait fails the ride
\* with the driver's lock still in the table.
WaitTotalTimeoutKeepsLock(m) ==
  /\ ~crashed
  /\ pc[m] = "wait"
  /\ totalTimeout[m] = 0
  /\ FailExit(m)
  /\ driverTimeout' = [driverTimeout EXCEPT ![m] = 0]
  /\ UNCHANGED <<rideDriver, driverStatus, locks, pendingMatches, chanVars,
                 runRide, nearbyDrivers, idx, totalTimeout, ctxDone,
                 resultClosed, riderOf, reqVars, index, routerVars, crashed,
                 sweeperVars, geoVars>>

\* Offer select, case <-totalTimeout (lines 300-307).
WaitTotalTimeout(m) ==
  /\ ~crashed
  /\ pc[m] = "wait"
  /\ totalTimeout[m] = 0
  /\ locks' = ReleaseLock(Candidate(m))
  /\ FailExit(m)
  /\ driverTimeout' = [driverTimeout EXCEPT ![m] = 0]
  /\ UNCHANGED <<rideDriver, driverStatus, pendingMatches, chanVars, runRide,
                 nearbyDrivers, idx, totalTimeout, ctxDone, resultClosed,
                 outsideRun>>

\* Fault injection: the deferred cleanup closes the channel but leaves the
\* registry entry in place.
DeregisterKeepsEntry(m) ==
  /\ ~crashed
  /\ pc[m] = "deregister"
  /\ respClosed' = [respClosed EXCEPT ![m] = TRUE]
  /\ totalTimeout' = [totalTimeout EXCEPT ![m] = 0]
  /\ pc' = [pc EXCEPT ![m] = "close_result"]
  /\ UNCHANGED <<rideVars, driverStatus, locks, pendingMatches, responseChan,
                 runRide, nearbyDrivers, idx, driverTimeout, ctxDone,
                 resultChan, resultClosed, sent, riderOf, reqVars, index,
                 routerVars, crashed, sweeperVars, geoVars>>

\* Fault injection: the cleanup closes the result channel together with the
\* rendezvous.
DeregisterClosesResult(m) ==
  /\ ~crashed
  /\ pc[m] = "deregister"
  /\ pendingMatches' = [k \in DOMAIN pendingMatches \ {Ride(m)} |-> pendingMatches[k]]
  /\ respClosed' = [respClosed EXCEPT ![m] = TRUE]
  /\ resultClosed' = [resultClosed EXCEPT ![m] = TRUE]
  /\ totalTimeout' = [totalTimeout EXCEPT ![m] = 0]
  /\ pc' = [pc EXCEPT ![m] = "close_result"]
  /\ UNCHANGED <<rideVars, driverStatus, locks, responseChan, runRide,
                 nearbyDrivers, idx, driverTimeout, ctxDone, resultChan,
                 sent, riderOf, reqVars, index, routerVars, crashed,
                 sweeperVars, geoVars>>

\* Deferred cleanup: delete(s.pendingMatches, ride.ID) under the registry
\* lock, then close(responseChan) (lines 184-189).
Deregister(m) ==
  /\ ~crashed
  /\ pc[m] = "deregister"
  /\ pendingMatches' = [k \in DOMAIN pendingMatches \ {Ride(m)} |-> pendingMatches[k]]
  /\ respClosed' = [respClosed EXCEPT ![m] = TRUE]
  /\ totalTimeout' = [totalTimeout EXCEPT ![m] = 0]
  /\ pc' = [pc EXCEPT ![m] = "close_result"]
  /\ UNCHANGED <<rideVars, driverStatus, locks, responseChan, runRide,
                 nearbyDrivers, idx, driverTimeout, ctxDone, resultChan,
                 resultClosed, sent, outsideRun>>

\* defer close(resultChan) (line 175).
CloseResultChan(m) ==
  /\ ~crashed
  /\ pc[m] = "close_result"
  /\ resultClosed' = [resultClosed EXCEPT ![m] = TRUE]
  /\ pc' = [pc EXCEPT ![m] = "done"]
  /\ UNCHANGED <<rideVars, driverStatus, locks, pendingMatches, chanVars,
                 runRide, nearbyDrivers, idx, totalTimeout, driverTimeout,
                 ctxDone, resultChan, sent, outsideRun>>

\* The caller cancels the context it passed to StartMatching.
Cancel(m) ==
  /\ ~crashed
  /\ pc[m] \in {"loop", "wait"}
  /\ ~ctxDone[m]
  /\ ctxDone' = [ctxDone EXCEPT ![m] = TRUE]
  /\ UNCHANGED <<rideVars, driverStatus, locks, pendingMatches, chanVars, pc,
                 runRide, nearbyDrivers, idx, totalTimeout, driverTimeout,
                 resultChan, resultClosed, sent, outsideRun>>

\* -------------------------------------------------------- response ingress
notRouter == <<rideVars, reqVars, driverVars, locks, pendingMatches,
               runVars>>

\* MatchingService.SubmitDriverResponse (lines 321-327).
SubmitDriverResponse(d, r, accept) ==
  /\ ~crashed
  /\ submitted < MaxSubmits
  /\ Len(driverResponses) < DriverResponsesCap
  /\ driverResponses' = Append(driverResponses,
                              Response(d, r, accept, r \notin DOMAIN pendingMatches))
  /\ submitted' = submitted + 1
  /\ UNCHANGED <<notRouter, chanVars, routerPc, routerResp, routerCh, crashed, sweeperVars, geoVars>>

\* processDriverResponses: receive and look the channel up under RLock
\* (lines 122-127).
RouterReceive ==
  /\ ~crashed
  /\ routerPc = "recv"
  /\ driverResponses # <<>>
  /\ driverResponses' = Tail(driverResponses)
  /\ IF Head(driverResponses).rideID \in DOMAIN pendingMatches
     THEN /\ routerPc' = "send"
          /\ routerResp' = Head(driverResponses)
          /\ routerCh' = pendingMatches[Head(driverResponses).rideID]
     ELSE UNCHANGED <<routerPc, routerResp, routerCh>>
  /\ UNCHANGED <<notRouter, chanVars, submitted, crashed, sweeperVars, geoVars>>

\* Fault injection: a router that makes room in a full responseChan by
\* discarding the oldest response.
RouterSendCapEvicts(cap) ==
  /\ ~crashed
  /\ routerPc = "send"
  /\ routerPc' = "recv"
  /\ routerResp' = NoResp
  /\ routerCh' = 0
  /\ IF respClosed[routerCh]
     THEN crashed' = TRUE /\ UNCHANGED responseChan
     ELSE /\ UNCHANGED crashed
          /\ IF Len(responseChan[routerCh]) < cap
             THEN responseChan' = [responseChan EXCEPT ![routerCh] = Append(@, routerResp)]
             ELSE responseChan' = [responseChan EXCEPT ![routerCh] = Append(Tail(@), routerResp)]
  /\ UNCHANGED <<notRouter, respClosed, driverResponses, submitted, sweeperVars, geoVars>>

\* processDriverResponses: the non-blocking send (lines 128-132) into a
\* responseChan of capacity cap. A send on a closed channel panics, and
\* nothing recovers a panic of this goroutine.
RouterSendCap(cap) ==
  /\ ~crashed
  /\ routerPc = "send"
  /\ routerPc' = "recv"
  /\ routerResp' = NoResp
  /\ routerCh' = 0
  /\ IF respClosed[routerCh]
     THEN crashed' = TRUE /\ UNCHANGED responseChan
     ELSE /\ UNCHANGED crashed
          /\ IF Len(responseChan[routerCh]) < cap
             THEN responseChan' = [responseChan EXCEPT ![routerCh] = Append(@, routerResp)]
             ELSE UNCHANGED responseChan
  /\ UNCHANGED <<notRouter, respClosed, driverResponses, submitted, sweeperVars, geoVars>>

RouterSend == RouterSendCap(ResponseChanCap)

\* ------------------------------------------------------- sweeper and clock
notLocks == <<rideVars, reqVars, driverVars, pendingMatches, chanVars,
              routerVars, crashed, sweeperVars, geoVars>>

\* LockManager.cleanupExpiredLocks, case <-ticker.C: one sweep (lines 70-78).
cleanupExpiredLocks ==
  /\ ~crashed
  /\ sweeperPc = "run"
  /\ \E k \in DOMAIN locks : IsSweepable(locks[k])
  /\ locks' = [k \in {x \in DOMAIN locks : ~IsSweepable(locks[x])} |-> locks[k]]
  /\ UNCHANGED <<notLocks, runVars>>

TimerRunning(m) ==
  pc[m] \in {"query", "loop", "lock", "notify", "wait", "accept_write", "accepted"}

Dec(x, floor) == IF x > floor THEN x - 1 ELSE floor


\* One unit of time passes: every lock entry is one unit nearer to (or
\* further past) its expiry, every armed timer one unit nearer to firing.
Tick ==
  /\ ~crashed
  /\ \/ \E k \in DOMAIN locks : locks[k] > -1
     \/ \E m \in Runs : TimerRunning(m) /\ totalTimeout[m] > 0
     \/ \E m \in Runs : pc[m] = "wait" /\ driverTimeout[m] > 0
  /\ locks' = [k \in DOMAIN locks |-> Dec(locks[k], -1)]
  /\ totalTimeout' = [m \in Runs |-> IF TimerRunning(m) THEN Dec(totalTimeout[m], 0)
                                     ELSE totalTimeout[m]]
  /\ driverTimeout' = [m \in Runs |-> IF pc[m] = "wait" THEN Dec(driverTimeout[m], 0)
                                      ELSE driverTimeout[m]]
  /\ UNCHANGED <<notLocks, pc, runRide, nearbyDrivers, idx, ctxDone,
                 resultChan, resultClosed, sent>>

\* LockManager.Stop: close(lm.stop) (lines 85-87).
Stop ==
  /\ ~crashed
  /\ ~stop
  /\ stop' = TRUE
  /\ UNCHANGED <<rideVars, reqVars, driverVars, locks, pendingMatches, chanVars,
                 routerVars, crashed, sweeperPc, geoVars, runVars>>

\* cleanupExpiredLocks, case <-lm.stop: return (lines 79-80).
SweeperExit ==
  /\ ~crashed
  /\ sweeperPc = "run"
  /\ stop
  /\ sweeperPc' = "exit"
  /\ UNCHANGED <<rideVars, reqVars, driverVars, locks, pendingMatches, chanVars,
                 routerVars, crashed, stop, geoVars, runVars>>

\* ------------------------------------------------------------ location API
notIndex == <<rideVars, reqVars, driverStatus, locks, pendingMatches, chanVars,
              routerVars, crashed, sweeperVars, geoCall, runVars>>

\* What the removal loop of UpdateLocation and RemoveDriver can leave behind:
\* the map is ranged over in no particular order and the first cell found to
\* hold the driver loses that record (spatial_index.go 37-45, 63-71).
AfterRemoval(cs, d) ==
  IF Holders(cs, d) = {} THEN {cs}
  ELSE {DeleteFromCell(cs, gh, d) : gh \in Holders(cs, d)}

\* Fault injection: UpdateLocation adds the new record without removing the
\* old one.
UpdateLocationKeepsOld(d, lat, lon) ==
  /\ ~crashed
  /\ LET geohash == Encode(lat, lon, GeohashPrecision)
     IN cells' = AddToCell(cells, geohash, NewDriverLocation(d, lat, lon, geohash))
  /\ lastPos' = [lastPos EXCEPT ![d] = Position(lat, lon)]
  /\ index' = index \cup {d}
  /\ UNCHANGED notIndex

\* SpatialIndex.UpdateLocation (spatial_index.go 30-56), under s.mu.
UpdateLocation(d, lat, lon) ==
  /\ ~crashed
  /\ LET geohash == Encode(lat, lon, GeohashPrecision)
     IN \E cs \in AfterRemoval(cells, d) :
          cells' = AddToCell(cs, geohash, NewDriverLocation(d, lat, lon, geohash))
  /\ lastPos' = [lastPos EXCEPT ![d] = Position(lat, lon)]
  /\ index' = index \cup {d}
  /\ UNCHANGED notIndex

\* SpatialIndex.RemoveDriver (spatial_index.go 59-72), under s.mu.
RemoveDriver(d) ==
  /\ ~crashed
  /\ \E cs \in AfterRemoval(cells, d) : cells' = cs
  /\ lastPos' = [lastPos EXCEPT ![d] = NoPos]
  /\ index' = index \ {d}
  /\ UNCHANGED notIndex

\* DriverRepository.GetOrCreate: an unknown driver is created and put online
\* (lock_manager.go 221-233); the status of the driver it returns.
GetOrCreate(d) ==
  IF driverStatus[d] = NoDriverRecord THEN DriverStatusAvailable ELSE driverStatus[d]

\* What UpdateLocation leaves outside the index and the drivers' statuses.
notLocation == <<rideVars, reqVars, locks, pendingMatches, chanVars,
                 routerVars, crashed, sweeperVars, geoCall, runVars>>

\* Fault injection: every location update puts the driver online.
UpdateDriverLocationGoesOnline(d, lat, lon) ==
  /\ ~crashed
  /\ driverStatus' = [driverStatus EXCEPT ![d] = DriverStatusAvailable]
  /\ LET geohash == Encode(lat, lon, GeohashPrecision)
     IN \E cs \in AfterRemoval(cells, d) :
          cells' = AddToCell(cs, geohash, NewDriverLocation(d, lat, lon, geohash))
  /\ lastPos' = [lastPos EXCEPT ![d] = Position(lat, lon)]
  /\ index' = index \cup {d}
  /\ UNCHANGED notLocation

\* LocationService.UpdateDriverLocation (location_service.go 29-53):
\* GetOrCreate, GoOnline when the driver is Offline, then
\* SpatialIndex.UpdateLocation.
UpdateDriverLocation(d, lat, lon) ==
  /\ ~crashed
  /\ driverStatus' = [driverStatus EXCEPT ![d] =
                        IF GetOrCreate(d) = DriverStatusOffline
                        THEN DriverStatusAvailable
                        ELSE GetOrCreate(d)]
  /\ LET geohash == Encode(lat, lon, GeohashPrecision)
     IN \E cs \in AfterRemoval(cells, d) :
          cells' = AddToCell(cs, geohash, NewDriverLocation(d, lat, lon, geohash))
  /\ lastPos' = [lastPos EXCEPT ![d] = Position(lat, lon)]
  /\ index' = index \cup {d}
  /\ UNCHANGED notLocation

\* ------------------------------------------------------------ geohash calls
notGeoCall == <<rideVars, reqVars, driverVars, locks, pendingMatches, chanVars,
                routerVars, crashed, sweeperVars, cells, lastPos, runVars>>

Opposite(direction) ==
  CASE direction = "n" -> "s"
    [] direction = "s" -> "n"
    [] direction = "e" -> "w"
    [] direction = "w" -> "e"

\* A caller computes Neighbor(h, direction); a behaviour follows one call.
CallNeighbor(h, direction) ==
  /\ geoCall = NoCall
  /\ geoCall' = GeoCall(h, direction, Neighbor(h, direction), <<>>, <<>>)
  /\ UNCHANGED notGeoCall

\* The caller goes back: Neighbor of the cell it got, in the opposite
\* direction.
CallNeighborBack ==
  /\ geoCall.direction # ""
  /\ geoCall.out # Panic
  /\ geoCall.back = <<>>
  /\ geoCall' = [geoCall EXCEPT !.back = Neighbor(geoCall.out, Opposite(geoCall.direction))]
  /\ UNCHANGED notGeoCall

\* A caller computes AllNeighbors(h).
CallAllNeighbors(h) ==
  /\ geoCall = NoCall
  /\ geoCall' = GeoCall(h, "", <<>>, <<>>, AllNeighbors(h))
  /\ UNCHANGED notGeoCall

\* --------------------------------------------------------- specifications
DriverUpdateStatuses ==
  {RideStatusPickingUp, RideStatusInProgress, RideStatusCompleted, RideStatusCancelled}

\* The steps of matchingLoop that need no driver response.
TimerStep(m) ==
  \/ TransitionCheck(m)
  \/ TransitionWrite(m)
  \/ Query(m)
  \/ Exhausted(m)
  \/ LoopTotalTimeout(m)
  \/ LoopCancelled(m)
  \/ LoopRecheck(m)
  \/ Acquire(m)
  \/ Notify(m)
  \/ WaitDriverTimeout(m)
  \/ WaitTotalTimeout(m)
  \/ Deregister(m)
  \/ CloseResultChan(m)

\* The steps of matchingLoop that consume a driver response.
ResponseStep(m) ==
  \/ WaitAccept(m)
  \/ AcceptWrite(m)
  \/ EmitSuccess(m)
  \/ WaitDecline(m)

\* The response ingress: the HTTP handler's submit and the router goroutine.
Ingress ==
  \/ \E d \in Drivers, r \in Rides, a \in BOOLEAN : SubmitDriverResponse(d, r, a)
  \/ RouterReceive
  \/ RouterSend

\* Spec: one matching run in its whole environment: riders requesting rides,
\* drivers responding and advancing rides, the clock, the sweeper and the
\* caller's cancellation.
Next ==
  \/ \E u \in Riders, r \in Rides : RequestRideCheck(u, r)
  \/ \E r \in Rides : RequestRideWrite(r)
  \/ \E d \in Drivers, r \in Rides, s \in DriverUpdateStatuses : UpdateRideStatus(d, r, s)
  \/ \E r \in Rides : StartMatching(1, r)
  \/ TimerStep(1)
  \/ ResponseStep(1)
  \/ Cancel(1)
  \/ Ingress
  \/ cleanupExpiredLocks
  \/ Tick

Spec == Init /\ [][Next]_vars

\* SpecTimers: concurrent matching runs whose offers end by timeout or by
\* cancellation; every ride has been requested.
InitRequested ==
  InitState(RideStatusRequested, [r \in Rides |-> IF r = "r1" THEN "u1" ELSE "u2"])

NextTimers ==
  \/ \E m \in Runs, r \in Rides : StartMatching(m, r)
  \/ \E m \in Runs : TimerStep(m)
  \/ \E m \in Runs : Cancel(m)
  \/ cleanupExpiredLocks
  \/ Tick

SpecTimers == InitRequested /\ [][NextTimers]_vars

\* SpecPair: concurrent matching runs and the drivers' responses within the
\* timeouts (no timer fires).
NextPair ==
  \/ \E d \in Drivers, r \in Rides, s \in DriverUpdateStatuses : UpdateRideStatus(d, r, s)
  \/ \E m \in Runs, r \in Rides : StartMatching(m, r)
  \/ \E m \in Runs : TransitionCheck(m) \/ TransitionWrite(m) \/ Query(m)
                     \/ Exhausted(m) \/ LoopRecheck(m) \/ Acquire(m) \/ Notify(m)
                     \/ Deregister(m) \/ CloseResultChan(m)
  \/ \E m \in Runs : ResponseStep(m)
  \/ Ingress

SpecPair == InitRequested /\ [][NextPair]_vars

\* SpecApi: the ride service on its own: riders requesting rides and drivers
\* advancing them, every rejected call recorded. It starts where a matching
\* run has ended with d1's acceptance of r1 and r2 is still an estimate, of
\* the same rider or of another one.
InitApi ==
  /\ rideStatus = [r \in Rides |-> IF r = "r1" THEN RideStatusAccepted ELSE RideStatusEstimate]
  /\ rideDriver = [r \in Rides |-> IF r = "r1" THEN "d1" ELSE NoDriver]
  /\ riderOf \in {[r \in Rides |-> "u1"], [r \in Rides |-> IF r = "r1" THEN "u1" ELSE "u2"]}
  /\ reqPc = [r \in Rides |-> "idle"]
  /\ lastErr = NoError
  /\ driverStatus = [d \in Drivers |-> IF d = "d1" THEN DriverStatusInRide ELSE DriverStatusAvailable]
  /\ index = Drivers
  /\ locks = <<>>
  /\ pendingMatches = <<>>
  /\ responseChan = [m \in Runs |-> <<>>]
  /\ respClosed = [m \in Runs |-> m = 1]
  /\ driverResponses = <<>>
  /\ routerPc = "recv"
  /\ routerResp = NoResp
  /\ routerCh = 0
  /\ crashed = FALSE
  /\ pc = [m \in Runs |-> IF m = 1 THEN "done" ELSE "idle"]
  /\ runRide = [m \in Runs |-> "r1"]
  /\ nearbyDrivers = [m \in Runs |-> IF m = 1 THEN <<"d1", "d2">> ELSE <<>>]
  /\ idx = [m \in Runs |-> IF m = 1 THEN 1 ELSE 0]
  /\ totalTimeout = [m \in Runs |-> 0]
  /\ driverTimeout = [m \in Runs |-> 0]
  /\ ctxDone = [m \in Runs |-> FALSE]
  /\ resultChan = [m \in Runs |-> IF m = 1 THEN <<Outcome(TRUE, "d1", "")>> ELSE <<>>]
  /\ resultClosed = [m \in Runs |-> m = 1]
  /\ sent = [m \in Runs |-> IF m = 1
                             THEN <<Note("DriverOfferReceived", "d1"),
                                    Note("RiderDriverAccepted", "u1")>>
                             ELSE <<>>]
  /\ submitted = 1
  /\ stop = FALSE
  /\ sweeperPc = "run"
  /\ cells = CellsAtHome(Drivers)
  /\ lastPos = [d \in Drivers |-> HomePos(d)]
  /\ geoCall = NoCall

NextApi ==
  \/ \E u \in Riders, r \in Rides : RequestRideCheck(u, r)
  \/ \E r \in Rides : RequestRideWrite(r)
  \/ \E u \in Riders, r \in Rides : RequestRideRejected(u, r)
  \/ \E d \in Drivers, r \in Rides, s \in DriverUpdateStatuses : UpdateRideStatus(d, r, s)
  \/ \E d \in Drivers, r \in Rides, s \in DriverUpdateStatuses : UpdateRideStatusRejected(d, r, s)

SpecApi == InitApi /\ [][NextApi]_vars

\* SpecTeardown: the two background goroutines, the operations that stop
\* them, and one matching run that takes the locks the sweeper removes.
\* The Go scheduler runs every runnable goroutine, so the sweeper and the
\* router take their enabled steps and time passes.
NextTeardown ==
  \/ \E r \in Rides : StartMatching(1, r)
  \/ TimerStep(1)
  \/ Cancel(1)
  \/ Ingress
  \/ cleanupExpiredLocks
  \/ Tick
  \/ Stop
  \/ SweeperExit

SpecTeardown ==
  /\ InitRequested
  /\ [][NextTeardown]_vars
  /\ WF_vars(SweeperExit)
  /\ WF_vars(cleanupExpiredLocks)
  /\ WF_vars(RouterReceive)
  /\ WF_vars(RouterSend)
  /\ WF_vars(TimerStep(1))
  /\ WF_vars(Tick)

\* SpecBooking: two runs and the drivers' responses, as SpecPair, with d1
\* the only driver on the map, so that both rides have d1 as their candidate.
InitOneDriver ==
  InitWith(RideStatusRequested, [r \in Rides |-> IF r = "r1" THEN "u1" ELSE "u2"], {"d1"})

SpecBooking == InitOneDriver /\ [][NextPair]_vars

\* SpecLive: the runs started for ride r1, whose callers never cancel, the
\* responses of d1, the only driver on the map, and the clock. Every
\* goroutine that can take a step eventually takes one, and time passes:
\* timers eventually fire.
RunStep(m) ==
  \/ TransitionCheck(m) \/ TransitionWrite(m) \/ Query(m) \/ Exhausted(m)
  \/ LoopTotalTimeout(m) \/ LoopRecheck(m) \/ Acquire(m) \/ Notify(m)
  \/ WaitDriverTimeout(m) \/ WaitTotalTimeout(m)
  \/ ResponseStep(m)
  \/ Deregister(m) \/ CloseResultChan(m)

NextLive ==
  \/ \E m \in Runs : StartMatching(m, "r1")
  \/ \E m \in Runs : RunStep(m)
  \/ \E a \in BOOLEAN : SubmitDriverResponse("d1", "r1", a)
  \/ RouterReceive
  \/ RouterSend
  \/ Tick

SpecLive ==
  /\ InitOneDriver
  /\ [][NextLive]_vars
  /\ \A m \in Runs : WF_vars(RunStep(m))
  /\ WF_vars(RouterReceive)
  /\ WF_vars(RouterSend)
  /\ WF_vars(Tick)

\* SpecOffer: one run for ride r1 with both drivers on the map, the drivers'
\* responses for r1 routed into a responseChan that holds more than one
\* response, and the clock, under the scheduling of SpecLive.
InitBothDrivers ==
  InitWith(RideStatusRequested, [r \in Rides |-> IF r = "r1" THEN "u1" ELSE "u2"], Drivers)

NextOffer ==
  \/ StartMatching(1, "r1")
  \/ RunStep(1)
  \/ \E d \in Drivers, a \in BOOLEAN : SubmitDriverResponse(d, "r1", a)
  \/ RouterReceive
  \/ RouterSendCap(WideChanCap)
  \/ Tick

SpecOffer ==
  /\ InitBothDrivers
  /\ [][NextOffer]_vars
  /\ WF_vars(RunStep(1))
  /\ WF_vars(RouterReceive)
  /\ WF_vars(RouterSendCap(WideChanCap))
  /\ WF_vars(Tick)

\* SpecIndex: drivers reporting positions and going offline.
Lats == {-50 * CoordScale, 0, 10 * CoordScale}
Lons == {-100 * CoordScale, 0, 10486, 10 * CoordScale, 100 * CoordScale}

NextIndex ==
  \/ \E d \in Drivers, lat \in Lats, lon \in Lons : UpdateLocation(d, lat, lon)
  \/ \E d \in Drivers : RemoveDriver(d)

SpecIndex == Init /\ [][NextIndex]_vars

\* SpecLocation: drivers reporting their position to the location service
\* while a run matches ride r1, time passes and the accepting driver
\* advances the ride.
\* d1 is known and on the map, d2 has never been heard of: a driver gets
\* its record from its first location update, which also puts it online,
\* and nothing in the program takes a driver offline again.
InitLocation ==
  /\ rideStatus = [r \in Rides |-> RideStatusRequested]
  /\ rideDriver = [r \in Rides |-> NoDriver]
  /\ riderOf = [r \in Rides |-> IF r = "r1" THEN "u1" ELSE "u2"]
  /\ reqPc = [r \in Rides |-> "idle"]
  /\ lastErr = NoError
  /\ driverStatus = [d \in Drivers |-> IF d = "d1" THEN DriverStatusAvailable ELSE NoDriverRecord]
  /\ index = {"d1"}
  /\ locks = <<>>
  /\ pendingMatches = <<>>
  /\ responseChan = [m \in Runs |-> <<>>]
  /\ respClosed = [m \in Runs |-> FALSE]
  /\ driverResponses = <<>>
  /\ routerPc = "recv"
  /\ routerResp = NoResp
  /\ routerCh = 0
  /\ crashed = FALSE
  /\ pc = [m \in Runs |-> "idle"]
  /\ runRide = [m \in Runs |-> "r1"]
  /\ nearbyDrivers = [m \in Runs |-> <<>>]
  /\ idx = [m \in Runs |-> 0]
  /\ totalTimeout = [m \in Runs |-> 0]
  /\ driverTimeout = [m \in Runs |-> 0]
  /\ ctxDone = [m \in Runs |-> FALSE]
  /\ resultChan = [m \in Runs |-> <<>>]
  /\ resultClosed = [m \in Runs |-> FALSE]
  /\ sent = [m \in Runs |-> <<>>]
  /\ submitted = 0
  /\ stop = FALSE
  /\ sweeperPc = "run"
  /\ cells = CellsAtHome(index)
  /\ lastPos = [d \in Drivers |-> IF d \in index THEN HomePos(d) ELSE NoPos]
  /\ geoCall = NoCall

\* The positions drivers report under SpecLocation.
ReportedLons == {0, 10486}

NextLocation ==
  \/ \E d \in Drivers, lon \in ReportedLons : UpdateDriverLocation(d, 0, lon)
  \/ StartMatching(1, "r1")
  \/ RunStep(1)
  \/ \E d \in Drivers : SubmitDriverResponse(d, "r1", TRUE)
  \/ RouterReceive
  \/ RouterSend
  \/ \E d \in Drivers, s \in DriverUpdateStatuses : UpdateRideStatus(d, "r1", s)
  \/ Tick

SpecLocation == InitLocation /\ [][NextLocation]_vars

\* SpecGeo: calls of Neighbor and AllNeighbors on every geohash of up to
\* MaxHashLen characters.
Base32Chars == {base32[i] : i \in 1..Len(base32)}
Hashes == UNION {[1..n -> Base32Chars] : n \in 1..MaxHashLen}
Directions == {"n", "s", "e", "w"}

NextGeo ==
  \/ \E h \in Hashes, d \in Directions : CallNeighbor(h, d)
  \/ CallNeighborBack
  \/ \E h \in Hashes : CallAllNeighbors(h)

SpecGeo == Init /\ [][NextGeo]_vars

\* ------------------------------------------------------------------ claims
\* Run m is inside an offer window for driver d: the offer notification has
\* been sent and neither timer of the wait is due yet.
InOfferWindow(m, d) ==
  /\ pc[m] = "wait"
  /\ Candidate(m) = d
  /\ driverTimeout[m] > 0
  /\ totalTimeout[m] > 0

\* C1: no driver is offered two rides at the same moment: for every driver
\* at most one matching run is inside an offer window for that driver.
C1_NoDoubleOffer ==
  \A d \in Drivers : \A m1, m2 \in Runs :
    InOfferWindow(m1, d) /\ InOfferWindow(m2, d) => m1 = m2

\* The runs for ride r whose AcceptRide has returned success.
AcceptSucceeded(r) ==
  {m \in Runs : /\ pc[m] # "idle"
                /\ runRide[m] = r
                /\ \/ pc[m] = "accepted"
                   \/ \E i \in 1..Len(resultChan[m]) : resultChan[m][i].success}

\* C2: no ride is accepted by two drivers: over all runs started for a ride
\* at most one AcceptRide succeeds and at most one success outcome is emitted.
C2_AtMostOneAcceptance ==
  \A r \in Rides : Cardinality(AcceptSucceeded(r)) <= 1

\* Run m has stopped for good: it returned, or the process died under it.
Stopped(m) == pc[m] = "done" \/ (crashed /\ pc[m] # "idle")

\* C3: every matching run delivers exactly one outcome on its result
\* rendezvous and then closes it: never two outcomes, nothing after the
\* close, and a run that has stopped has delivered its outcome.
C3_ExactlyOneOutcome ==
  \A m \in Runs :
    /\ Len(resultChan[m]) <= 1
    /\ resultClosed[m] => Len(resultChan[m]) = 1
    /\ pc[m] = "done" => resultClosed[m]
    /\ Stopped(m) => Len(resultChan[m]) = 1

\* C4: when a run emits a success outcome carrying driver D, the ride's
\* driverID is D (non-empty) and the ride's status is Accepted.
C4_SuccessMatchesRide ==
  [][\A m \in Runs :
       (pc[m] = "accepted" /\ pc'[m] = "deregister")
         => /\ Candidate(m) # NoDriver
            /\ rideDriver[Ride(m)] = Candidate(m)
            /\ rideStatus[Ride(m)] = RideStatusAccepted]_vars

\* C5: every change of a ride's status is an edge of the transition table;
\* in particular a Completed, Cancelled or Failed ride never changes status.
C5_OnlyTableEdges ==
  [][\A r \in Rides :
       rideStatus'[r] # rideStatus[r]
         => /\ rideStatus'[r] \in validTransitions(rideStatus[r])
            /\ rideStatus[r] \notin TerminalStatuses]_vars

\* C6: every rider has at most one ride in an active status, also when the
\* rider's RequestRide calls for different rides interleave.
C6_OneActiveRidePerRider ==
  \A u \in Riders :
    Cardinality({r \in Rides : riderOf[r] = u /\ rideStatus[r] \in ActiveStatuses}) <= 1

\* C7: AcquireLock(key, ttl) succeeds exactly when the key has no entry or
\* its entry has now >= expiresAt; on success the entry becomes now + ttl, on
\* failure the table is unchanged; so while an entry is live every other
\* acquisition of the key fails, and no entry outlives its ttl.
C7_AcquireSemantics ==
  /\ [](\A k \in DOMAIN locks : locks[k] <= DriverResponseTimeout)
  /\ [][\A m \in Runs :
          (pc[m] = "lock" /\ pc'[m] # "lock")
            => LET k == Candidate(m) IN
               IF k \notin DOMAIN locks \/ locks[k] <= 0
               THEN /\ pc'[m] = "notify"
                    /\ DOMAIN locks' = DOMAIN locks \cup {k}
                    /\ locks'[k] = DriverResponseTimeout
                    /\ \A x \in DOMAIN locks \ {k} : locks'[x] = locks[x]
               ELSE /\ pc'[m] = "loop"
                    /\ locks' = locks]_vars

\* A run has just re-acquired the key of an expired entry whose first holder
\* is still waiting.
C7_Witness ==
  \E m1, m2 \in Runs :
    /\ m1 # m2
    /\ pc[m1] = "notify" /\ pc[m2] = "wait"
    /\ Candidate(m1) = Candidate(m2)
    /\ locks[Candidate(m1)] = DriverResponseTimeout

\* The outcome of the cancellation exit path.
CancelledOutcome == Outcome(FALSE, NoDriver, "cancelled")

\* Run m is at a suspension point: the loop-top select or the offer wait.
AtSuspensionPoint(m) ==
  \/ pc[m] = "loop" /\ idx[m] <= Len(nearbyDrivers[m])
  \/ pc[m] = "wait"

\* C8: once the caller's cancellation has fired, a run at a suspension point
\* (the offer wait included) can take the cancellation exit there and then:
\* it emits the cancellation outcome, holds no driver lock afterwards and
\* goes on to de-register.
C8_CancellationObserved ==
  \A m \in Runs :
    (ctxDone[m] /\ AtSuspensionPoint(m))
      => ENABLED (/\ NextTimers
                  /\ pc'[m] = "deregister"
                  /\ resultChan'[m] = Append(resultChan[m], CancelledOutcome)
                  /\ pc[m] = "wait" => Candidate(m) \notin DOMAIN locks')

\* C9: the registry holds an entry for a ride only while the run that
\* registered it is executing and has not yet cleaned up; a run that has
\* cleaned up has closed its channel and left no entry of its own; once all
\* runs have ended the registry is empty.
C9_RegistryOnlyWhileRunning ==
  /\ \A r \in DOMAIN pendingMatches :
       /\ runRide[pendingMatches[r]] = r
       /\ pc[pendingMatches[r]] \notin {"idle", "close_result", "done"}
  /\ \A m \in Runs :
       pc[m] \in {"close_result", "done"}
         => /\ respClosed[m]
            /\ Ride(m) \in DOMAIN pendingMatches => pendingMatches[Ride(m)] # m
  /\ (\A m \in Runs : pc[m] \in {"idle", "done"}) => pendingMatches = <<>>

\* Both runs have ended, one of them through an acceptance.
C9_Witness ==
  /\ \A m \in Runs : pc[m] = "done"
  /\ \E m \in Runs : resultChan[m][1].success
  /\ pendingMatches = <<>>

IsOffer(n) == n.kind = "DriverOfferReceived"

\* The drivers run m has notified of an offer, in order.
Offers(m) == SelectSeq(sent[m], IsOffer)

\* Position of driver d in the candidate list of run m.
Pos(m, d) == CHOOSE i \in 1..Len(nearbyDrivers[m]) : nearbyDrivers[m][i] = d

\* The acceptance of run m's current candidate has succeeded.
Succeeded(m) ==
  pc[m] = "accepted" \/ \E i \in 1..Len(resultChan[m]) : resultChan[m][i].success

\* C10: within one run the candidate list is in ascending distance, offers
\* go out in the order of that list, at most one offer (the current
\* candidate's) is outstanding, and after a successful acceptance no
\* further offer is sent.
C10_SequentialOffers ==
  /\ [](\A m \in Runs :
          LET nb == nearbyDrivers[m]
              of == Offers(m)
          IN /\ \A i, j \in 1..Len(nb) :
                  i < j => Distance(Ride(m), nb[i]) <= Distance(Ride(m), nb[j])
             /\ \A i \in 1..Len(of) : \E j \in 1..Len(nb) : nb[j] = of[i].to
             /\ \A i, j \in 1..Len(of) : i < j => Pos(m, of[i].to) < Pos(m, of[j].to)
             /\ Cardinality({i \in 1..Len(of) : Pos(m, of[i].to) >= idx[m]}) <= 1
             /\ pc[m] = "wait" => of # <<>> /\ of[Len(of)].to = Candidate(m))
  /\ [][\A m \in Runs : Succeeded(m) => Offers(m)' = Offers(m)]_vars

\* The nearer driver's offer ended without an acceptance, the farther
\* driver accepted, and the run has returned.
C10_Witness ==
  /\ pc[1] = "done"
  /\ Len(Offers(1)) = 2
  /\ resultChan[1][1].success

\* C11: a driver response submitted for a ride that has no registered
\* rendezvous is a silent no-op: the step that disposes of it changes no
\* ride, no driver status, no lock entry, no registry entry and sends no
\* notification.
C11_OrphanResponseNoOp ==
  [][\A m \in Runs :
       (/\ responseChan[m] # <<>>
        /\ Head(responseChan[m]).orphan
        /\ responseChan'[m] = Tail(responseChan[m]))
         => UNCHANGED <<rideStatus, rideDriver, driverStatus, locks,
                        pendingMatches, sent>>]_vars

\* The rider has an active ride other than r.
HasOtherActiveRide(u, r) ==
  \E r2 \in Rides \ {r} : riderOf[r2] = u /\ rideStatus[r2] \in ActiveStatuses

\* The step is a call rejected with error e.
RejectedWith(e) == lastErr' # lastErr /\ lastErr'.err = e

\* C12: RequestRide for an estimate while the rider has a different active
\* ride fails with ActiveRideExists, and the rejected call changes no ride.
C12_ActiveRideExists ==
  /\ [](\A u \in Riders, r \in Rides :
          (rideStatus[r] = RideStatusEstimate /\ HasOtherActiveRide(u, r))
            => /\ RequestRideErrors(u, r) = {"ActiveRideExists"}
               /\ ~ENABLED RequestRideCheck(u, r))
  /\ [][RejectedWith("ActiveRideExists")
          => UNCHANGED <<rideStatus, rideDriver, driverStatus, reqPc>>]_vars

\* Rider u1, whose ride r1 is active, was refused the estimate r2.
C12_Witness ==
  /\ lastErr = Rejection("RequestRide", "u1", "r2", "", "ActiveRideExists")
  /\ rideStatus["r2"] = RideStatusEstimate
  /\ rideStatus["r1"] \in ActiveStatuses

\* C14: a call by a principal who does not own the ride (RequestRide by
\* another rider, UpdateRideStatus by a driver other than the assigned one)
\* fails with NotAuthorized, and the rejected call changes no ride and no
\* driver status.
C14_NotAuthorizedNoChange ==
  /\ [](\A u \in Riders, r \in Rides :
          riderOf[r] # u => RequestRideErrors(u, r) = {"NotAuthorized"})
  /\ [](\A d \in Drivers, r \in Rides, st \in RideStatuses :
          rideDriver[r] # d
            => /\ UpdateRideStatusError(d, r, st) = "NotAuthorized"
               /\ ~ENABLED UpdateRideStatus(d, r, st))
  /\ [][RejectedWith("NotAuthorized")
          => UNCHANGED <<rideStatus, rideDriver, driverStatus, reqPc>>]_vars

\* C15: UpdateRideStatus by the assigned driver to a status that is no edge
\* from the current one fails with InvalidTransition, and the rejected call
\* changes neither the ride nor any driver status.
C15_InvalidTransitionNoChange ==
  /\ [](\A d \in Drivers, r \in Rides, st \in RideStatuses :
          (rideDriver[r] = d /\ st \notin validTransitions(rideStatus[r]))
            => /\ UpdateRideStatusError(d, r, st) = "InvalidTransition"
               /\ ~ENABLED UpdateRideStatus(d, r, st))
  /\ [][RejectedWith("InvalidTransition")
          => UNCHANGED <<rideStatus, rideDriver, driverStatus, reqPc>>]_vars

\* The assigned driver of a ride was refused a status that is no edge.
C15_Witness ==
  /\ lastErr.op = "UpdateRideStatus"
  /\ lastErr.err = "InvalidTransition"
  /\ rideDriver[lastErr.ride] = lastErr.who
  /\ lastErr.status \notin validTransitions(rideStatus[lastErr.ride])

\* Run m consumes the acceptance of the driver it is offering the ride to,
\* that is, it calls AcceptRide.
CallsAcceptRide(m) ==
  /\ pc[m] = "wait"
  /\ responseChan[m] # <<>>
  /\ Head(responseChan[m]).accept
  /\ Head(responseChan[m]).driverID = Candidate(m)
  /\ responseChan'[m] = Tail(responseChan[m])

\* C13: acceptance is all-or-nothing: an AcceptRide that fails leaves the
\* ride's driverID and status as they were, and one that succeeds leaves the
\* ride Accepted with the accepting driver assigned.
C13_AcceptAllOrNothing ==
  [][\A m \in Runs :
       /\ (CallsAcceptRide(m) /\ pc'[m] = "loop")
            => /\ rideDriver'[Ride(m)] = rideDriver[Ride(m)]
               /\ rideStatus'[Ride(m)] = rideStatus[Ride(m)]
       /\ (pc[m] = "accept_write" /\ pc'[m] = "accepted")
            => /\ rideDriver'[Ride(m)] = Candidate(m)
               /\ rideStatus'[Ride(m)] = RideStatusAccepted]_vars

IsNoDrivers(n) == n.kind = "RiderNoDriversAvailable"

\* How many times run m has told the rider that no driver is available.
NoDriversCount(m) == Len(SelectSeq(sent[m], IsNoDrivers))

\* Run m ends on one of its failure exits: the candidate query came back
\* empty, the list is exhausted, or the total timeout fired.
EndsByFailure(m) ==
  \/ Query(m) /\ pc'[m] = "deregister"
  \/ Exhausted(m)
  \/ LoopTotalTimeout(m)
  \/ WaitTotalTimeout(m)

\* Run m ends by acceptance, by a failed Matching transition or by
\* cancellation.
EndsOtherwise(m) ==
  \/ EmitSuccess(m)
  \/ TransitionCheck(m) /\ pc'[m] = "deregister"
  \/ LoopCancelled(m)

\* C17: a run sends RiderNoDriversAvailable at most once; it sends it on
\* exactly the failure exits (empty query, exhausted list, total timeout),
\* where the ride ends in Failed and the outcome has success=false; a run
\* ending by acceptance, a failed Matching transition or cancellation sends
\* none.
C17_NoDriversNotification ==
  /\ [](\A m \in Runs : NoDriversCount(m) <= 1)
  /\ [][\A m \in Runs :
          /\ EndsByFailure(m)
               => /\ NoDriversCount(m)' = 1
                  /\ rideStatus'[Ride(m)] = RideStatusFailed
                  /\ ~resultChan'[m][Len(resultChan'[m])].success
          /\ EndsOtherwise(m) => NoDriversCount(m)' = 0
          /\ NoDriversCount(m)' # NoDriversCount(m) => EndsByFailure(m)]_vars

IsTimedOut(n) == n.kind = "DriverOfferTimedOut"

\* The drivers run m has told that their offer timed out, in order.
TimedOut(m) == SelectSeq(sent[m], IsTimedOut)

\* The per-offer timer of run m fires: the run leaves its offer wait for the
\* next candidate without consuming a response.
OfferTimeoutFires(m) ==
  /\ pc[m] = "wait" /\ driverTimeout[m] = 0
  /\ pc'[m] = "loop"
  /\ responseChan'[m] = responseChan[m]

\* Run m leaves its loop with an outcome that is neither a success, nor a
\* cancellation, nor a failed Matching transition.
EndsUnanswered(m) ==
  /\ pc[m] \in {"query", "loop", "wait"}
  /\ pc'[m] = "deregister"
  /\ resultChan'[m][Len(resultChan'[m])].error = ""

ConsumesDecline(m) ==
  /\ pc[m] = "wait"
  /\ responseChan[m] # <<>>
  /\ ~(Head(responseChan[m]).accept /\ Head(responseChan[m]).driverID = Candidate(m))
  /\ responseChan'[m] = Tail(responseChan[m])

\* Run m had a single candidate, and that offer was ended by a decline.
OnlyCandidateDeclined(m) ==
  /\ Len(nearbyDrivers[m]) = 1
  /\ idx[m] = 2
  /\ Offers(m) # <<>>
  /\ TimedOut(m) = <<>>
  /\ ~Succeeded(m)

\* C19: a decline (accept=false, or a response of another driver) consumed
\* during the offer to D releases D's lock, changes neither D's status nor
\* the ride's status and driverID, and moves the run to its next candidate;
\* when D was the only candidate the run ends with success=false.
C19_DeclineFrame ==
  /\ [](\A m \in Runs :
          (OnlyCandidateDeclined(m) /\ Stopped(m) /\ ~crashed)
            => /\ Len(resultChan[m]) = 1
               /\ ~resultChan[m][1].success)
  /\ [][\A m \in Runs :
          ConsumesDecline(m)
            => /\ Candidate(m) \notin DOMAIN locks'
               /\ driverStatus' = driverStatus
               /\ rideStatus' = rideStatus
               /\ rideDriver' = rideDriver
               /\ pc'[m] = "loop"
               /\ idx'[m] = idx[m] + 1]_vars

\* The only candidate of a run declined and the run has ended in failure.
C19_Witness ==
  \E m \in Runs :
    /\ OnlyCandidateDeclined(m)
    /\ pc[m] = "done"
    /\ ~resultChan[m][1].success
    /\ driverStatus[nearbyDrivers[m][1]] = DriverStatusAvailable
    /\ rideDriver[Ride(m)] = NoDriver
    /\ rideStatus[Ride(m)] = RideStatusFailed

\* C20: a ride in Accepted, PickingUp or InProgress has a driverID; a ride in
\* Estimate, Requested or Matching that no driver has accepted has none:
\* it has none while no driver has responded at all, and a ride's driverID
\* is written only when a run processes the acceptance of the driver it is
\* offering, with that driver's ID.
C20_DriverIDPresence ==
  /\ [](\A r \in Rides :
          /\ rideStatus[r] \in {RideStatusAccepted, RideStatusPickingUp, RideStatusInProgress}
               => rideDriver[r] # NoDriver
          /\ (/\ rideStatus[r] \in {RideStatusEstimate, RideStatusRequested, RideStatusMatching}
              /\ submitted = 0)
               => rideDriver[r] = NoDriver)
  /\ [][\A r \in Rides :
          rideDriver'[r] # rideDriver[r]
            => \E m \in Runs : /\ Ride(m) = r
                               /\ CallsAcceptRide(m)
                               /\ rideDriver'[r] = Candidate(m)]_vars

\* One ride is under way with its driver while another, never accepted, has
\* no driverID.
C20_Witness ==
  \E r, q \in Rides :
    /\ rideStatus[r] = RideStatusInProgress
    /\ rideDriver[r] \in Drivers
    /\ rideStatus[q] \in {RideStatusEstimate, RideStatusRequested, RideStatusMatching}
    /\ rideDriver[q] = NoDriver

\* Every operation the program has for stopping a background goroutine has
\* been called.
TornDown == stop

\* C21: both background goroutines can be stopped: once the teardown
\* operations have been called the sweeper exits and deletes nothing any
\* more, and the response router exits as well.
C21_BackgroundTasksStop ==
  /\ TornDown ~> (crashed \/ sweeperPc = "exit")
  /\ [](sweeperPc = "exit" => ~ENABLED cleanupExpiredLocks)
  /\ TornDown ~> (crashed \/ routerPc = "exit")

\* The sweeper's half of C21, which holds.
C21_SweeperStops ==
  /\ TornDown ~> (crashed \/ sweeperPc = "exit")
  /\ [](sweeperPc = "exit" => ~ENABLED cleanupExpiredLocks)

\* The drivers that were updated and not removed since.
Tracked == {d \in Drivers : lastPos[d] # NoPos}

\* C22: the index holds exactly one record for every driver updated and not
\* removed since, under the cell Encode(lat, lon, P) of the latest position
\* and carrying that position; it holds no record of any other driver;
\* Count() is the number of such drivers; no empty cell map is kept.
C22_OneRecordPerDriver ==
  /\ \A d \in Tracked :
       LET gh == Encode(lastPos[d].lat, lastPos[d].lon, GeohashPrecision)
       IN /\ Holders(cells, d) = {gh}
          /\ cells[gh][d] = NewDriverLocation(d, lastPos[d].lat, lastPos[d].lon, gh)
  /\ \A d \in Drivers \ Tracked : Holders(cells, d) = {}
  /\ \A gh \in DOMAIN cells : DOMAIN cells[gh] \subseteq Drivers
  /\ Count = Cardinality(Tracked)
  /\ \A gh \in DOMAIN cells : DOMAIN cells[gh] # {}

\* Both drivers have moved away from their first cell, one of them has been
\* removed and the other is alone in a cell that is not its first.
C22_Witness ==
  /\ Tracked = {"d1"}
  /\ Holders(cells, "d1") # {Encode(0, 0, GeohashPrecision)}
  /\ Cardinality(DOMAIN cells) = 1

\* Cell h touches the edge of the world in the direction given: at every
\* level its character is on the border of its parent cell.
OnEdge(h, direction) ==
  \A k \in 1..Len(h) :
    ContainsRune(borders(direction, IF k % 2 = 0 THEN "o" ELSE "e"), h[k])

\* C23: for a geohash that is not on the antimeridian or a pole edge, going
\* one cell in a direction and one cell back (n then s, s then n, e then w,
\* w then e) returns the geohash itself.
C23_NeighborRoundTrip ==
  (/\ geoCall.back # <<>>
   /\ ~OnEdge(geoCall.hash, geoCall.direction))
    => geoCall.back = geoCall.hash

\* C24: Neighbor(h, d) completes without a runtime failure and returns a
\* string over the base-32 alphabet, as long as h and different from h;
\* AllNeighbors(h) returns nine cells as long as h, h first.
C24_NeighborWellFormed ==
  /\ geoCall.direction # ""
       => /\ geoCall.out # Panic
          /\ Len(geoCall.out) = Len(geoCall.hash)
          /\ \A i \in 1..Len(geoCall.out) : geoCall.out[i] \in Base32Chars
          /\ geoCall.out # geoCall.hash
  /\ geoCall.all # <<>>
       => /\ geoCall.all # Panic
          /\ Len(geoCall.all) = 9
          /\ geoCall.all[1] = geoCall.hash
          /\ \A k \in 1..Len(geoCall.all) : Len(geoCall.all[k]) = Len(geoCall.hash)

\* C25: the response router never sends on a responseChan that has been
\* closed: a response that arrives as the run ends is delivered before the
\* close or dropped, and the process never dies of a send on a closed
\* channel.
C25_NoSendOnClosed ==
  /\ [](~crashed)
  /\ [][(routerPc = "send" /\ routerPc' = "recv") => ~respClosed[routerCh]]_vars

\* The statuses in which a ride occupies its driver.
DrivenStatuses == {RideStatusAccepted, RideStatusPickingUp, RideStatusInProgress}

\* C26: no driver is the assigned driver of two rides that are both in
\* Accepted, PickingUp or InProgress.
C26_NoDoubleBooking ==
  \A r, q \in Rides :
    (/\ r # q
     /\ rideStatus[r] \in DrivenStatuses
     /\ rideStatus[q] \in DrivenStatuses
     /\ rideDriver[r] # NoDriver)
      => rideDriver[r] # rideDriver[q]

\* Run m emits its outcome in this step, its Matching transition having
\* succeeded before.
EmitsOutcome(m) ==
  /\ pc[m] \in {"query", "loop", "wait", "accepted"}
  /\ pc'[m] = "deregister"

\* The termination half of C27: a run past its Matching transition returns
\* (or the process dies under it).
C27_Terminates ==
  \A m \in Runs : (pc[m] = "query") ~> (pc[m] = "done" \/ crashed)

\* C27: a run whose Matching transition succeeded and whose caller never
\* cancels terminates, and it leaves the ride out of Matching: Accepted when
\* its outcome is a success, Failed otherwise.
C27_RunSettlesRide ==
  /\ C27_Terminates
  /\ [][\A m \in Runs :
          EmitsOutcome(m)
            => /\ rideStatus'[Ride(m)] # RideStatusMatching
               /\ rideStatus'[Ride(m)] =
                    IF resultChan'[m][Len(resultChan'[m])].success
                    THEN RideStatusAccepted
                    ELSE RideStatusFailed]_vars

\* The next response run m reads from its responseChan is an acceptance by
\* driver d.
InRendezvous(m, d) ==
  /\ responseChan[m] # <<>>
  /\ Head(responseChan[m]).driverID = d
  /\ Head(responseChan[m]).accept

\* The router forwards, in this step, an acceptance by the driver run m is
\* waiting for, neither timer of the run having fired; it is the driver's
\* only answer in the rendezvous.
ForwardsAcceptance(m, d) ==
  /\ routerPc = "send"
  /\ routerCh = m
  /\ pc[m] = "wait"
  /\ Candidate(m) = d
  /\ routerResp = Response(d, Ride(m), TRUE, FALSE)
  /\ driverTimeout[m] > 0
  /\ totalTimeout[m] > 0
  /\ \A i \in 1..Len(responseChan[m]) : responseChan[m][i].driverID # d
  /\ responseChan'[m] = Append(responseChan[m], routerResp)

\* Run m waits for d's answer, no timer has fired, and d's acceptance is
\* what it reads next.
AcceptedInTime(m, d) ==
  /\ pc[m] = "wait"
  /\ Candidate(m) = d
  /\ InRendezvous(m, d)
  /\ driverTimeout[m] > 0
  /\ totalTimeout[m] > 0

\* A timer of run m fires while the run still waits for d.
TimerFiredOn(m, d) ==
  /\ pc[m] = "wait"
  /\ Candidate(m) = d
  /\ (driverTimeout[m] = 0 \/ totalTimeout[m] = 0)

SucceededWith(m, d) ==
  /\ resultChan[m] # <<>>
  /\ resultChan[m][Len(resultChan[m])] = Outcome(TRUE, d, "")

\* C28: an acceptance of the offered driver D that reaches the rendezvous
\* while the run waits for D, before the offer's timeout and the total
\* timeout fire, is honoured whatever other responses for the ride were
\* submitted before: it is the response the run reads next, and the run
\* that reads it in time ends with {success, driverID = D}.
C28_AcceptanceHonoured ==
  /\ [][\A m \in Runs, d \in Drivers :
          ForwardsAcceptance(m, d) => AcceptedInTime(m, d)']_vars
  /\ \A m \in Runs, d \in Drivers :
       AcceptedInTime(m, d) ~> (SucceededWith(m, d) \/ TimerFiredOn(m, d) \/ crashed)

\* The second half of C28 alone.
C28_ReadInTimeSucceeds ==
  \A m \in Runs, d \in Drivers :
    AcceptedInTime(m, d) ~> (SucceededWith(m, d) \/ TimerFiredOn(m, d) \/ crashed)

\* Run m leaves its candidate loop in this step with nothing but the caller's
\* cancellation to leave it for: candidates remain and the total timeout has
\* not fired.
ExitsOnCancellation(m) ==
  /\ pc[m] = "loop"
  /\ ctxDone[m]
  /\ idx[m] <= Len(nearbyDrivers[m])
  /\ totalTimeout[m] > 0
  /\ pc'[m] = "deregister"

\* Run m emits the cancellation outcome in this step.
EmitsCancelled(m) ==
  /\ resultChan'[m] # resultChan[m]
  /\ resultChan'[m][Len(resultChan'[m])] = CancelledOutcome

AcquireRefused(m) ==
  /\ pc[m] = "lock"
  /\ pc'[m] # "lock"
  /\ Candidate(m) \in DOMAIN locks
  /\ locks[Candidate(m)] > 0

OffersTo(m, d) == SelectSeq(Offers(m), LAMBDA n : n.to = d)

\* C30: a run whose Acquire of "driver:"+D returns false because a live
\* lock on D is held skips D: it sends D no offer, arms no offer timer and
\* waits for no response, leaves the lock table as it is, and goes on to
\* the next candidate.
C30_SkipsLockedDriver ==
  [][\A m \in Runs :
       AcquireRefused(m)
         => /\ sent'[m] = sent[m]
            /\ driverTimeout'[m] = driverTimeout[m]
            /\ responseChan'[m] = responseChan[m]
            /\ locks' = locks
            /\ pc'[m] = "loop"
            /\ idx'[m] = idx[m] + 1
            /\ nearbyDrivers'[m] = nearbyDrivers[m]]_vars

\* One run waits for a driver whose lock it holds, and another run has
\* passed that driver without an offer and is at its next candidate.
C30_Witness ==
  \E m1, m2 \in Runs :
    /\ m1 # m2
    /\ pc[m1] = "wait"
    /\ Candidate(m1) \in DOMAIN locks
    /\ locks[Candidate(m1)] > 0
    /\ pc[m2] = "loop"
    /\ idx[m2] = 2
    /\ Len(nearbyDrivers[m2]) >= 2
    /\ nearbyDrivers[m2][1] = Candidate(m1)
    /\ OffersTo(m2, Candidate(m1)) = <<>>

\* Run m sends its candidate the offer notification in this step.
SendsOffer(m) ==
  /\ pc[m] = "notify"
  /\ Offers(m)' # Offers(m)

\* C31: a run offers a ride only to a driver who is Available at the moment
\* the offer notification is sent, under any interleaving with other runs:
\* a driver who is InRide or Offline receives no offer.
C31_OffersOnlyAvailable ==
  [][\A m \in Runs :
       SendsOffer(m) => driverStatus[Candidate(m)] = DriverStatusAvailable]_vars

\* Run m leaves its offer wait in this step; every way out of the wait calls
\* ReleaseLock on the candidate's key.
ReleasesCandidate(m) ==
  /\ pc[m] = "wait"
  /\ pc'[m] # "wait"
  /\ locks' = ReleaseLock(Candidate(m))

\* The key of run m's candidate holds a live entry that run m did not
\* install: the run armed its offer timer after its own acquisition, with the
\* same duration, so an entry of its own has no more time left than that
\* timer; an entry with more was installed later, by another run.
HoldsForeignEntry(m) ==
  /\ IsLocked(Candidate(m))
  /\ locks[Candidate(m)] > driverTimeout[m]

\* C32: a run's release of "driver:"+D removes only an entry the run itself
\* installed: under any interleaving of runs, expiry and sweeps no run
\* deletes a live entry on D that another run installed.
C32_ReleasesOwnLock ==
  [][\A m \in Runs : ReleasesCandidate(m) => ~HoldsForeignEntry(m)]_vars

\* Run m is between a successful acquisition and the release that ends the
\* offer.
InOffer(m) == pc[m] \in {"notify", "wait"}

\* C33: within one run every lock the run acquired is released before the
\* run considers the next candidate and before it emits its outcome: the
\* run holds at most one lock at any instant, the one of its current offer,
\* and none once the offer has ended, whichever way it ended (acceptance,
\* failed acceptance, decline, offer timeout, total timeout).
C33_ReleaseBeforeNext ==
  /\ [](/\ Cardinality(DOMAIN locks) <= 1
        /\ \A m \in Runs : pc[m] # "idle" /\ ~InOffer(m) => DOMAIN locks = {}
        /\ \A m \in Runs : InOffer(m) => DOMAIN locks \subseteq {Candidate(m)})
  /\ [][\A m \in Runs :
          /\ (InOffer(m) /\ ~InOffer(m)') => Candidate(m) \notin DOMAIN locks'
          /\ resultChan'[m] # resultChan[m] => DOMAIN locks' = {}]_vars

\* The run has made two offers, the first ended without an acceptance, the
\* second was accepted, and the run has returned with no lock left.
C33_Witness ==
  /\ pc[1] = "done"
  /\ Len(Offers(1)) = 2
  /\ resultChan[1][1].success
  /\ DOMAIN locks = {}
  /\ Len(TimedOut(1)) = 1

\* The step conjunct of C33 alone, which needs no single run: every way out
\* of an offer leaves no entry under the candidate's key.
C33_EveryExitReleases ==
  [][\A m \in Runs :
       (InOffer(m) /\ ~InOffer(m)') => Candidate(m) \notin DOMAIN locks']_vars

\* Run m's deferred cleanup removes the registry entry of its ride in this
\* step.
RemovesEntry(m) ==
  /\ pc[m] = "deregister"
  /\ pc'[m] # "deregister"
  /\ Ride(m) \notin DOMAIN pendingMatches'

\* C34: in every run the terminal outcome is emitted before the run removes
\* the ride's registry entry and closes the per-ride rendezvous, and the
\* result channel is closed only after both.
C34_TeardownOrder ==
  [][\A m \in Runs :
       /\ resultChan'[m] # resultChan[m]
            => /\ resultChan[m] = <<>>
               /\ Len(resultChan'[m]) = 1
               /\ ~respClosed[m] /\ ~respClosed'[m]
               /\ ~resultClosed[m] /\ ~resultClosed'[m]
               /\ pendingMatches' = pendingMatches
       /\ RemovesEntry(m) => Len(resultChan[m]) = 1 /\ ~resultClosed'[m]
       /\ (respClosed'[m] /\ ~respClosed[m])
            => Len(resultChan[m]) = 1 /\ ~resultClosed'[m]
       /\ (resultClosed'[m] /\ ~resultClosed[m])
            => /\ Len(resultChan[m]) = 1
               /\ respClosed[m]
               /\ Ride(m) \in DOMAIN pendingMatches => pendingMatches[Ride(m)] # m]_vars

\* A run that ended by an acceptance has emitted its outcome, removed the
\* entry and closed the rendezvous, and has not yet closed the result
\* channel.
C34_Witness ==
  /\ pc[1] = "close_result"
  /\ Len(resultChan[1]) = 1
  /\ resultChan[1][1].success
  /\ respClosed[1]
  /\ ~resultClosed[1]
  /\ Ride(1) \notin DOMAIN pendingMatches

TransitionError == Outcome(FALSE, NoDriver, "transition")

\* Run m's call of rideService.StartMatching returns an error in this step:
\* the ride is not in a status that Matching can follow.
TransitionRefused(m) ==
  /\ pc[m] = "transition"
  /\ pc'[m] # "transition"
  /\ ~CanTransitionTo(rideStatus[Ride(m)], RideStatusMatching)

\* Run m takes a step after its Matching transition was refused.
StepsAfterRefusal(m) ==
  /\ resultChan[m] = <<TransitionError>>
  /\ pc'[m] # pc[m]

\* C35: a run whose transition of the ride to Matching fails emits a failure
\* outcome that carries the transition error and returns: it queries no
\* drivers, acquires no lock, sends no notification and changes neither the
\* ride's status nor any driver's.
C35_RefusedTransition ==
  /\ [](\A m \in Runs :
          (resultChan[m] # <<>> /\ resultChan[m][1] = TransitionError)
            => /\ resultChan[m] = <<TransitionError>>
               /\ nearbyDrivers[m] = <<>>
               /\ sent[m] = <<>>
               /\ pc[m] \in {"deregister", "close_result", "done"})
  /\ [][\A m \in Runs :
          /\ TransitionRefused(m)
               => /\ resultChan'[m] = <<TransitionError>>
                  /\ UNCHANGED <<rideStatus, rideDriver, driverStatus, locks, sent>>
          /\ StepsAfterRefusal(m)
               => UNCHANGED <<rideStatus, rideDriver, driverStatus, locks, sent>>]_vars

\* A second StartMatching for a ride was refused and has returned, while the
\* first run for that ride is waiting for its driver's answer.
C35_Witness ==
  \E m1, m2 \in Runs :
    /\ m1 # m2
    /\ Ride(m1) = Ride(m2)
    /\ pc[m1] = "wait"
    /\ pc[m2] = "done"
    /\ resultChan[m2] = <<TransitionError>>
    /\ rideStatus[Ride(m1)] = RideStatusMatching

\* The router's send finds the looked-up responseChan open in this step.
RouterSends == routerPc = "send" /\ routerPc' = "recv" /\ ~respClosed[routerCh]

\* The send finds the channel at capacity: the response is dropped.
DropsResponse == RouterSends /\ Len(responseChan[routerCh]) >= ResponseChanCap

Matching(m) ==
  pc[m] \in {"query", "loop", "lock", "notify", "wait", "accept_write", "accepted"}

\* C37: whatever StartMatching calls were made, repeated ones for one ride
\* included, a run that has passed its Matching transition and has not yet
\* emitted its outcome is reachable through the registry: the entry of its
\* ride exists and is the run's own rendezvous.
C37_RunReachable ==
  \A m \in Runs :
    Matching(m) => /\ Ride(m) \in DOMAIN pendingMatches
                   /\ pendingMatches[Ride(m)] = m

\* Run m calls ReleaseLock on its candidate's key in this step: every way
\* out of the offer wait does.
CallsRelease(m) == pc[m] = "wait" /\ pc'[m] # "wait"

\* C38: Release(key) removes any entry of the key and is a no-op when there
\* is none; entries carry no owner, so after a release by any caller
\* IsLocked(key) is false and the next Acquire(key) returns true, whoever
\* installed the entry and whatever time it had left; the entries of other
\* keys are not affected.
C38_ReleaseSemantics ==
  [][\A m \in Runs :
       CallsRelease(m)
         => \E key \in Drivers :
            /\ key = Candidate(m)
            /\ DOMAIN locks' = DOMAIN locks \ {key}
            /\ \A k \in DOMAIN locks' : locks'[k] = locks[k]
            /\ key \notin DOMAIN locks => locks' = locks
            /\ ~IsLocked(key)'
            /\ AcquireLock(key)']_vars

\* A run has ended its timed-out offer to a driver by a release, another run
\* has acquired that driver's key and not yet released it, and the key has
\* no entry: it can be acquired again.
C38_Witness ==
  \E m1, m2 \in Runs :
    /\ m1 # m2
    /\ pc[m1] = "loop" /\ idx[m1] = 2
    /\ Len(TimedOut(m1)) = 1
    /\ pc[m2] = "notify"
    /\ Candidate(m2) = nearbyDrivers[m1][1]
    /\ Candidate(m2) \notin DOMAIN locks
    /\ AcquireLock(Candidate(m2))

\* The sweeper deletes entries in this step: the table loses keys and no
\* run moves.
Sweeps ==
  /\ sweeperPc = "run"
  /\ pc' = pc
  /\ DOMAIN locks' # DOMAIN locks

\* C39: a sweep deletes every expired entry (now >= expiresAt: every entry
\* that is not live) and no live one, and it never changes what Acquire or
\* IsLocked would return for any key.
C39_SweepDeletesExpired ==
  [][Sweeps
       => /\ \A k \in DOMAIN locks : k \in DOMAIN locks' <=> IsLive(locks[k])
          /\ \A k \in DOMAIN locks' : locks'[k] = locks[k]
          /\ \A k \in Drivers : /\ IsLocked(k)' = IsLocked(k)
                                /\ AcquireLock(k)' = AcquireLock(k)]_vars

\* What holds of every sweep: it deletes the entries whose expiry lies in
\* the past, keeps the others, and is invisible to Acquire and IsLocked.
C39_SweepInvisible ==
  [][Sweeps
       => /\ \A k \in DOMAIN locks : k \in DOMAIN locks' <=> ~IsSweepable(locks[k])
          /\ \A k \in DOMAIN locks : IsSweepable(locks[k]) => ~IsLive(locks[k])
          /\ \A k \in DOMAIN locks' : locks'[k] = locks[k]
          /\ \A k \in Drivers : /\ IsLocked(k)' = IsLocked(k)
                                /\ AcquireLock(k)' = AcquireLock(k)]_vars

\* Driver d's position is reported in this step: the location service has
\* run for d.
ReportsPosition(d) ==
  /\ lastPos'[d] # lastPos[d]
  /\ lastPos'[d] # NoPos

\* The step belongs to a ride: an acceptance or a driver's status call.
RideStep == rideStatus' # rideStatus

\* C40: UpdateDriverLocation changes a driver's status only from Offline to
\* Available: an InRide driver stays InRide and an Available one Available
\* after any number of location updates, and a driver unknown before the
\* call exists and is Available after it.
C40_LocationUpdateStatus ==
  [][\A d \in Drivers :
       /\ ReportsPosition(d)
            => /\ d \in index'
               /\ driverStatus'[d] =
                    IF driverStatus[d] \in {NoDriverRecord, DriverStatusOffline}
                    THEN DriverStatusAvailable
                    ELSE driverStatus[d]
               /\ \A e \in Drivers \ {d} : driverStatus'[e] = driverStatus[e]
       /\ (driverStatus'[d] # driverStatus[d] /\ ~RideStep)
            => /\ driverStatus[d] \in {NoDriverRecord, DriverStatusOffline}
               /\ driverStatus'[d] = DriverStatusAvailable
               /\ d \in index']_vars

\* d1 is on a ride and not where it started, and d2, unknown at first, has
\* reported a position and is Available.
C40_Witness ==
  /\ driverStatus["d1"] = DriverStatusInRide
  /\ lastPos["d1"] # HomePos("d1")
  /\ lastPos["d1"] # NoPos
  /\ rideStatus["r1"] = RideStatusInProgress
  /\ driverStatus["d2"] = DriverStatusAvailable
  /\ "d2" \in index

====
